---------------------------- MODULE Spec2Model ----------------------------
(***************************************************************************)
(* A model of the two migrators of src/cli.js: PlaywrightMigrator (lines   *)
(* 1-443) and BrowserJSMigrator (lines 445-781).                           *)
(*                                                                         *)
(* Source text is modelled as a sequence of lexemes.  A regular expression *)
(* of the source is modelled as a pattern over lexemes.  The lexemes are   *)
(* cut so that every match of an expression of the source on the           *)
(* characters of a modelled text begins and ends between two lexemes:      *)
(*   - a call's name ends with its "(" ("document.getElementById(");       *)
(*   - a property name a pattern can stop after is bare (".textContent");  *)
(*   - "(" ")" "," "{" "}" "=" "=>" ";" "$" are lexemes of their own;      *)
(*   - a white-space lexeme is one character, " " or "\n";                 *)
(*   - a string literal is one lexeme that remembers its quote style;      *)
(*   - a run of digits is one lexeme.                                      *)
(* Where an expression of the source is not anchored and matches inside    *)
(* longer names, the pattern lists the lexemes that hold a match.          *)
(*                                                                         *)
(* The step synthesis, whose code is not in src/, follows sections 4.4 to  *)
(* 4.6 of the specification; the bindings it always emits are those of     *)
(* src/common.steps.ts.                                                    *)
(***************************************************************************)
EXTENDS Integers, Sequences, FiniteSets, TLC

----------------------------------------------------------------------------
(* Lexemes *)

Tok(v) == [k |-> "lex", v |-> v]
Sq(v)  == [k |-> "sq",  v |-> v]   \* 'v'
Dq(v)  == [k |-> "dq",  v |-> v]   \* "v"
Sqq(v) == [k |-> "sqq", v |-> v]   \* '[name="v"]': a ' string holding " characters
Num(v) == [k |-> "num", v |-> v]   \* digits
Ws(v)  == [k |-> "ws",  v |-> v]   \* one white-space character

SP == Ws(" ")
NL == Ws("\n")

IsWs(t)  == t.k = "ws"
IsStr(t) == t.k \in {"sq", "dq"}

\* A sequence of lexemes from a sequence of strings; " " and "\n" are white space.
Lex(ss) ==
    [i \in 1..Len(ss) |->
        IF ss[i] = " " THEN SP ELSE IF ss[i] = "\n" THEN NL ELSE Tok(ss[i])]

\* The characters, among those the source's negated classes name, that a
\* lexeme holds: ) , } ' "
CharsOf(t) ==
    CASE t.k = "lex" -> IF t.v \in {")", ",", "}"} THEN {t.v} ELSE {}
      [] t.k = "sq"  -> {"'"}
      [] t.k = "dq"  -> {"\""}
      [] t.k = "sqq" -> {"'", "\""}
      [] OTHER       -> {}

----------------------------------------------------------------------------
(* Pattern elements: what one piece of a regular expression of the source  *)
(* matches.                                                                *)

Lit(v)      == [e |-> "lit", v |-> v]                 \* the lexeme v
In(S)       == [e |-> "in", s |-> S]                  \* a lexeme of S
Str         == [e |-> "str"]                          \* ['"]([^'"]+)['"], captured
StrIs(v)    == [e |-> "stris", v |-> v]               \* ['"]v['"], v spelled out
Alt(ps)     == [e |-> "alt", ps |-> ps]               \* (?:p1|p2|...)
StrOpen     == [e |-> "stro"]                         \* ['"], the quote opening a literal
Exact(t)    == [e |-> "eq", t |-> t]                  \* the lexeme t, of any kind
NL3         == [e |-> "nl3"]                          \* \n{3,}
Digits      == [e |-> "num"]                          \* (\d+), captured
Ws0         == [e |-> "ws", min |-> 0]                \* \s*
Ws1         == [e |-> "ws", min |-> 1]                \* \s+
Opt(v)      == [e |-> "opt", v |-> v]                 \* (?:v)?
Not0(cs)    == [e |-> "not", cs |-> cs, min |-> 0, cap |-> FALSE]  \* [^cs]*
Not1(cs)    == [e |-> "not", cs |-> cs, min |-> 1, cap |-> FALSE]  \* [^cs]+
Cap1(cs)    == [e |-> "not", cs |-> cs, min |-> 1, cap |-> TRUE]   \* ([^cs]+)
NotAhead(S) == [e |-> "nla", s |-> S]                 \* (?!\s*x), x starting a lexeme of S
NotAfterAwait == [e |-> "nlb"]                        \* (?<!await\s)

NoMatch == [ok |-> FALSE, end |-> 0, caps |-> <<>>]

\* The first attempt when it matches, else the next one: backtracking.
OrElse(first, next) == IF first.ok THEN first ELSE next

\* The length of the longest run of lexemes from text[i] on that hold none of cs.
RECURSIVE RunNot(_, _, _)
RunNot(text, i, cs) ==
    IF i > Len(text) \/ CharsOf(text[i]) \cap cs # {} THEN 0
    ELSE 1 + RunNot(text, i + 1, cs)

RECURSIVE RunWs(_, _)
RunWs(text, i) ==
    IF i > Len(text) \/ ~IsWs(text[i]) THEN 0 ELSE 1 + RunWs(text, i + 1)

RECURSIVE RunNl(_, _)
RunNl(text, i) ==
    IF i > Len(text) \/ text[i] # NL THEN 0 ELSE 1 + RunNl(text, i + 1)

\* MatchFrom(pat, p, text, i, caps): match pat[p..] at text[i..]; "end" is the
\* index after the match.  Greedy, with backtracking, as the source's engine.
RECURSIVE MatchFrom(_, _, _, _, _)
RECURSIVE TryLens(_, _, _, _, _, _, _, _)
RECURSIVE TryAlts(_, _, _, _, _, _)
TryLens(pat, p, text, i, caps, n, min, cap) ==
    IF n < min THEN NoMatch
    ELSE OrElse(MatchFrom(pat, p + 1, text, i + n,
                          IF cap THEN Append(caps, SubSeq(text, i, i + n - 1))
                          ELSE caps),
                TryLens(pat, p, text, i, caps, n - 1, min, cap))

\* The alternatives of pat[p], first to last, each followed by the rest of pat.
TryAlts(pat, p, text, i, caps, a) ==
    IF a > Len(pat[p].ps) THEN NoMatch
    ELSE OrElse(MatchFrom(pat[p].ps[a] \o SubSeq(pat, p + 1, Len(pat)), 1, text, i,
                          caps),
                TryAlts(pat, p, text, i, caps, a + 1))

MatchFrom(pat, p, text, i, caps) ==
    IF p > Len(pat) THEN [ok |-> TRUE, end |-> i, caps |-> caps]
    ELSE LET el == pat[p]
             has == i <= Len(text)
         IN  CASE el.e = "lit" ->
                    IF has /\ text[i].k = "lex" /\ text[i].v = el.v
                    THEN MatchFrom(pat, p + 1, text, i + 1, caps) ELSE NoMatch
               [] el.e = "in" ->
                    IF has /\ text[i].k = "lex" /\ text[i].v \in el.s
                    THEN MatchFrom(pat, p + 1, text, i + 1, caps) ELSE NoMatch
               [] el.e = "str" ->
                    IF has /\ IsStr(text[i])
                    THEN MatchFrom(pat, p + 1, text, i + 1, Append(caps, <<text[i]>>))
                    ELSE NoMatch
               [] el.e = "stris" ->
                    IF has /\ IsStr(text[i]) /\ text[i].v = el.v
                    THEN MatchFrom(pat, p + 1, text, i + 1, caps) ELSE NoMatch
               [] el.e = "alt" -> TryAlts(pat, p, text, i, caps, 1)
               [] el.e = "stro" ->
                    IF has /\ text[i].k \in {"sq", "dq", "sqq"}
                    THEN MatchFrom(pat, p + 1, text, i + 1, caps) ELSE NoMatch
               [] el.e = "eq" ->
                    IF has /\ text[i] = el.t
                    THEN MatchFrom(pat, p + 1, text, i + 1, caps) ELSE NoMatch
               [] el.e = "nl3" ->
                    IF RunNl(text, i) >= 3
                    THEN MatchFrom(pat, p + 1, text, i + RunNl(text, i), caps) ELSE NoMatch
               [] el.e = "num" ->
                    IF has /\ text[i].k = "num"
                    THEN MatchFrom(pat, p + 1, text, i + 1, Append(caps, <<text[i]>>))
                    ELSE NoMatch
               [] el.e = "ws" ->
                    TryLens(pat, p, text, i, caps, RunWs(text, i), el.min, FALSE)
               [] el.e = "opt" ->
                    OrElse(IF has /\ text[i].k = "lex" /\ text[i].v = el.v
                           THEN MatchFrom(pat, p + 1, text, i + 1, caps) ELSE NoMatch,
                           MatchFrom(pat, p + 1, text, i, caps))
               [] el.e = "not" ->
                    TryLens(pat, p, text, i, caps, RunNot(text, i, el.cs), el.min, el.cap)
               [] el.e = "nla" ->
                    IF /\ i + RunWs(text, i) <= Len(text)
                       /\ text[i + RunWs(text, i)].k = "lex"
                       /\ text[i + RunWs(text, i)].v \in el.s
                    THEN NoMatch ELSE MatchFrom(pat, p + 1, text, i, caps)
               [] el.e = "nlb" ->
                    IF i >= 3 /\ IsWs(text[i - 1]) /\ text[i - 2] = Tok("await")
                    THEN NoMatch ELSE MatchFrom(pat, p + 1, text, i, caps)

MatchAt(pat, text, i) == MatchFrom(pat, 1, text, i, <<>>)

\* RegExp.prototype.test: some position of the text starts a match.
Test(pat, text) == \E i \in 1..Len(text) : MatchAt(pat, text, i).ok

----------------------------------------------------------------------------
(* Replacement templates *)

T(v)      == [r |-> "tok", t |-> Tok(v)]      \* the lexeme v
TS        == [r |-> "tok", t |-> SP]
TN        == [r |-> "tok", t |-> NL]
TQ(v)     == [r |-> "tok", t |-> Sq(v)]       \* the literal 'v'
Q(n)      == [r |-> "q", n |-> n, pre |-> ""]        \* '$n'
QP(pre, n) == [r |-> "q", n |-> n, pre |-> pre]      \* 'pre$n'
QName(n)  == [r |-> "qname", n |-> n]         \* '[name="$n"]'
C(n)      == [r |-> "cap", n |-> n]           \* $n, as captured
Whole     == [r |-> "whole"]                  \* the whole match

\* The content of a captured string literal: the text between its quotes.
Content(c) == c[1].v

\* What one element of a template stands for.
Piece(el, caps, whole) ==
    CASE el.r = "tok"   -> <<el.t>>
      [] el.r = "q"     -> <<Sq(el.pre \o Content(caps[el.n]))>>
      [] el.r = "qname" -> <<Sqq(Content(caps[el.n]))>>
      [] el.r = "cap"   -> caps[el.n]
      [] el.r = "whole" -> whole

RECURSIVE Build(_, _, _, _)
Build(tmpl, j, caps, whole) ==
    IF j > Len(tmpl) THEN <<>>
    ELSE Piece(tmpl[j], caps, whole) \o Build(tmpl, j + 1, caps, whole)

\* A rule is one expression of the source with its replacement.  An
\* expression that is not anchored and can start inside a lexeme has one
\* variant per such lexeme, the replacement keeping the part of the lexeme
\* before the match; at most one variant matches at a position.
Rule(from, to) == << [from |-> from, to |-> to] >>
Rule2(from1, to1, from2, to2) ==
    << [from |-> from1, to |-> to1], [from |-> from2, to |-> to2] >>

NoHit == [ok |-> FALSE, end |-> 0, caps |-> <<>>, to |-> <<>>]

\* A match that takes at least one lexeme, with the replacement it selects.
Hit(m, i, to) ==
    IF m.ok /\ m.end > i
    THEN [ok |-> TRUE, end |-> m.end, caps |-> m.caps, to |-> to] ELSE NoHit

\* The match at text[i] of the first variant of the rule, from variant a on,
\* that matches there.
RECURSIVE VariantAt(_, _, _, _)
VariantAt(rule, text, i, a) ==
    IF a > Len(rule) THEN NoHit
    ELSE OrElse(Hit(MatchAt(rule[a].from, text, i), i, rule[a].to),
                VariantAt(rule, text, i, a + 1))

\* The matches of the rule at the positions from i on, each with its place.
Hits(rule, text, i) ==
    {h \in {[at |-> j, hit |-> VariantAt(rule, text, j, 1)] : j \in i..Len(text)} :
        h.hit.ok}

\* The leftmost of some matches.
First(hits) == CHOOSE h \in hits : \A g \in hits : h.at <= g.at

\* String.prototype.replace with a global pattern: every match, left to right,
\* none overlapping, the replacement text not scanned again.  The next match
\* is the leftmost one at or after i.
RECURSIVE ReplaceFrom(_, _, _)
RECURSIVE ReplaceNext(_, _, _, _)
RECURSIVE ReplaceMatch(_, _, _, _, _)
ReplaceMatch(rule, text, i, j, hit) ==
    SubSeq(text, i, j - 1)
        \o Build(hit.to, 1, hit.caps, SubSeq(text, j, hit.end - 1))
        \o ReplaceFrom(rule, text, hit.end)

ReplaceNext(rule, text, i, hits) ==
    IF hits = {} THEN SubSeq(text, i, Len(text))
    ELSE ReplaceMatch(rule, text, i, First(hits).at, First(hits).hit)

ReplaceFrom(rule, text, i) == ReplaceNext(rule, text, i, Hits(rule, text, i))

Replace(text, rule) == ReplaceFrom(rule, text, 1)

\* RegExp.prototype.test with the rule's expression.
Matches(rule, text) == \E i \in 1..Len(text) : VariantAt(rule, text, i, 1).ok

\* Every rule of a list, in list order, each on the result of the one before
\* (cli.js 279-281, 642-644: content = content.replace(from, to)).
\* Nothing matches the empty text, which every rule leaves empty.
RECURSIVE ApplyRules(_, _)
ApplyRules(text, rules) ==
    IF text = <<>> \/ rules = <<>> THEN text
    ELSE ApplyRules(Replace(text, Head(rules)), Tail(rules))

\* Some alternative of an expression with | matches somewhere.
TestAny(pats, text) == \E i \in 1..Len(pats) : Test(pats[i], text)

----------------------------------------------------------------------------
(* BrowserJSMigrator: TRANSFORMATIONS (cli.js 472-535) *)

\* name('...') -> page.locator('pre...')
CallRule(open, pre) ==
    Rule(<<Lit(open), Str, Lit(")")>>,
         <<T("page."), T("locator("), QP(pre, 1), T(")")>>)

\* Lexemes that start with "=" and with "(".
EqStart    == {"=", "=>", "==="}
ParenStart == {"("}

Accessor(name) == <<T(name), T("("), T(")")>>

Goto == <<T("await"), TS, T("page."), T("goto("), Q(1), T(")")>>

AwaitPage(call) == <<T("await"), TS, T("page."), T(call), T(")")>>

WaitTodo ==
    <<T("// TODO: Replace with proper waiting"), TN,
      T("await"), TS, T("page."), T("waitForTimeout("), C(1), T(")")>>

\* await page.evaluate(() => store.op('$1'<rest>))
Evaluate(call, rest) ==
    <<T("await"), TS, T("page."), T("evaluate("), T("("), T(")"), TS, T("=>"), TS,
      T(call)>> \o rest \o <<T(")"), T(")")>>

DialogOnce(label) ==
    <<T(label), TS, Q(1), TN,
      T("page."), T("once("), TQ("dialog"), T(","), TS,
      T("d"), TS, T("=>"), TS, T("d"), T(".accept("), T(")"), T(")")>>

BJS_selectors == <<
    CallRule("document.getElementById(", "#"),
    CallRule("document.querySelector(", ""),
    CallRule("document.querySelectorAll(", ""),
    CallRule("document.getElementsByClassName(", "."),
    CallRule("document.getElementsByTagName(", ""),
    Rule(<<Lit("document.getElementsByName("), Str, Lit(")")>>,
         <<T("page."), T("locator("), QName(1), T(")")>>),
    Rule(<<Lit("$"), Lit("("), Str, Lit(")")>>,
         <<T("page."), T("locator("), Q(1), T(")")>>),
    CallRule("jQuery(", "") >>

BJS_properties == <<
    Rule(<<Lit(".innerText"), NotAhead(EqStart)>>, Accessor(".textContent")),
    Rule(<<Lit(".textContent"), NotAhead(EqStart)>>, Accessor(".textContent")),
    Rule(<<Lit(".innerHTML"), NotAhead(EqStart)>>, Accessor(".innerHTML")),
    Rule(<<Lit(".value"), NotAhead(EqStart)>>, Accessor(".inputValue")),
    Rule(<<Lit(".getAttribute("), Str, Lit(")")>>,
         <<T(".getAttribute("), Q(1), T(")")>>),
    Rule(<<Lit(".val("), Lit(")"), NotAhead(ParenStart)>>, Accessor(".inputValue")),
    Rule(<<Lit(".text("), Lit(")"), NotAhead(ParenStart)>>, Accessor(".textContent")),
    Rule(<<Lit(".html("), Lit(")"), NotAhead(ParenStart)>>, Accessor(".innerHTML")) >>

BJS_actions == <<
    Rule(<<Lit(".click("), Lit(")")>>, <<T(".click("), T(")")>>),
    Rule(<<Lit(".focus("), Lit(")")>>, <<T(".focus("), T(")")>>),
    Rule(<<Lit(".blur("), Lit(")")>>, <<T(".blur("), T(")")>>),
    Rule(<<Lit(".submit("), Lit(")")>>, <<T(".press("), TQ("Enter"), T(")")>>),
    Rule(<<Lit(".scrollIntoView("), Not0({")"}), Lit(")")>>,
         <<T(".scrollIntoViewIfNeeded("), T(")")>>) >>

BJS_mutations == <<
    Rule(<<Lit(".value"), Ws0, Lit("="), Ws0, Str>>, <<T(".fill("), Q(1), T(")")>>),
    Rule(<<Lit(".val("), Str, Lit(")")>>, <<T(".fill("), Q(1), T(")")>>) >>

BJS_navigation == <<
    Rule(<<Lit("window.location"), Ws0, Lit("="), Ws0, Str>>, Goto),
    Rule(<<Lit("window.location"), Lit(".href"), Ws0, Lit("="), Ws0, Str>>, Goto),
    Rule(<<Lit("window.location"), Lit(".assign("), Str, Lit(")")>>, Goto),
    Rule(<<Lit("window.location"), Lit(".reload("), Lit(")")>>, AwaitPage("reload(")),
    Rule(<<Lit("history.back("), Lit(")")>>, AwaitPage("goBack(")),
    Rule(<<Lit("history.forward("), Lit(")")>>, AwaitPage("goForward(")) >>

BJS_waits == <<
    Rule(<<Lit("setTimeout("), Not1({","}), Lit(","), Ws0, Digits, Ws0, Lit(")")>>,
         WaitTodo),
    Rule(<<Lit("await"), Ws1, Lit("sleep("), Ws0, Digits, Ws0, Lit(")")>>, WaitTodo) >>

BJS_storage == <<
    Rule(<<Lit("localStorage.setItem("), Str, Lit(","), Ws0, Cap1({")"}), Lit(")")>>,
         Evaluate("localStorage.setItem(", <<Q(1), T(","), TS, C(2)>>)),
    Rule(<<Lit("localStorage.getItem("), Str, Lit(")")>>,
         Evaluate("localStorage.getItem(", <<Q(1)>>)),
    Rule(<<Lit("localStorage.removeItem("), Str, Lit(")")>>,
         Evaluate("localStorage.removeItem(", <<Q(1)>>)),
    Rule(<<Lit("localStorage.clear("), Lit(")")>>,
         Evaluate("localStorage.clear(", <<>>)),
    Rule(<<Lit("sessionStorage.setItem("), Str, Lit(","), Ws0, Cap1({")"}), Lit(")")>>,
         Evaluate("sessionStorage.setItem(", <<Q(1), T(","), TS, C(2)>>)),
    Rule(<<Lit("sessionStorage.getItem("), Str, Lit(")")>>,
         Evaluate("sessionStorage.getItem(", <<Q(1)>>)) >>

BJS_dialogs == <<
    Rule(<<Lit("alert("), Str, Lit(")")>>, DialogOnce("// Dialog:")),
    Rule(<<Lit("confirm("), Str, Lit(")")>>, DialogOnce("// Confirm:")) >>


\* BJS_CategoryOrder, had the object literal declared mutations before actions.
BJS_CategoryOrder_MutationsFirst ==
    <<"selectors", "properties", "mutations", "actions", "navigation", "waits",
      "storage", "dialogs">>

\* Object.values(TRANSFORMATIONS): the categories in the order the object
\* literal declares them (cli.js 472-535).
BJS_CategoryOrder ==
    <<"selectors", "properties", "actions", "mutations",
      "navigation", "waits", "storage", "dialogs">>

BJS_TRANSFORMATIONS ==
    [selectors  |-> BJS_selectors,  properties |-> BJS_properties,
     actions    |-> BJS_actions,    mutations  |-> BJS_mutations,
     navigation |-> BJS_navigation, waits      |-> BJS_waits,
     storage    |-> BJS_storage,    dialogs    |-> BJS_dialogs]

----------------------------------------------------------------------------
(* BrowserJSMigrator.detectPatterns (cli.js 588-602) *)

StorageCalls ==
    {"localStorage.setItem(", "localStorage.getItem(", "localStorage.removeItem(",
     "localStorage.clear(", "sessionStorage.setItem(", "sessionStorage.getItem("}

\* Each idiom with the alternatives of its expression, in the order of the ifs.
BJS_Detectors == <<
    [id |-> "getElementById",   pats |-> << <<Lit("document.getElementById(")>> >>],
    [id |-> "querySelector",    pats |-> << <<In({"document.querySelector(",
                                                  "document.querySelectorAll("})>> >>],
    [id |-> "querySelectorAll", pats |-> << <<Lit("document.querySelectorAll(")>> >>],
    [id |-> "jQuery",           pats |-> << <<Lit("$"), Lit("("), StrOpen>>,
                                            <<Lit("jQuery("), StrOpen>> >>],
    [id |-> "DOM-properties",   pats |-> << <<In({".innerText", ".innerHTML",
                                                  ".textContent"})>> >>],
    [id |-> "DOM-actions",      pats |-> << <<In({".click(", ".focus(", ".blur("}),
                                              Lit(")")>> >>],
    [id |-> "navigation",       pats |-> << <<Lit("window.location")>> >>],
    [id |-> "storage",          pats |-> << <<In(StorageCalls)>> >>],
    [id |-> "timers",           pats |-> << <<In({"setTimeout(", "setInterval("})>> >>],
    [id |-> "events",           pats |-> << <<Lit(".addEventListener(")>> >>],
    [id |-> "dialogs",          pats |-> << <<In({"alert(", "confirm(", "prompt("})>> >>] >>

\* DetectFrom, had the tests been chained with else: the first match wins.
RECURSIVE DetectFrom_FirstMatch(_, _)
DetectFrom_FirstMatch(content, d) ==
    IF d > Len(BJS_Detectors) THEN <<>>
    ELSE IF TestAny(BJS_Detectors[d].pats, content) THEN <<BJS_Detectors[d].id>>
    ELSE DetectFrom_FirstMatch(content, d + 1)

RECURSIVE DetectFrom(_, _)
DetectFrom(content, d) ==
    IF d > Len(BJS_Detectors) THEN <<>>
    ELSE (IF TestAny(BJS_Detectors[d].pats, content)
          THEN <<BJS_Detectors[d].id>> ELSE <<>>) \o DetectFrom(content, d + 1)

detectPatterns(content) == DetectFrom(content, 1)

----------------------------------------------------------------------------
(* BrowserJSMigrator.wrapTest (cli.js 666-685) *)

\* content.includes("from '@playwright/test'")
HasPlaywrightImport(content) ==
    Test(<<Lit("from"), Exact(SP), Exact(Sq("@playwright/test"))>>, content)

\* import { test, expect } from '@playwright/test';\n\n
ImportLine ==
    <<Tok("import"), SP, Tok("{"), SP, Tok("test"), Tok(","), SP, Tok("expect"), SP,
      Tok("}"), SP, Tok("from"), SP, Sq("@playwright/test"), Tok(";"), NL, NL>>

\* /describe\s*\(|it\s*\(|test\s*\(/: not anchored, so a name ending in
\* "describe(", "it(" or "test(" holds a match.
HasTestMarker(content) ==
    TestAny(<< <<In({"describe(", "test.describe(", "it(", ".submit(", "test("})>>,
               <<In({"test"}), Ws0, Lit("(")>> >>, content)

\* async ({ page }) =>
AsyncPageArrow ==
    <<T("async"), TS, T("("), T("{"), TS, T("page"), TS, T("}"), T(")"), TS, T("=>")>>

\* /describe\s*\(\s*(['"][^'"]+['"])/g -> test.describe($1 ; not anchored, so
\* it also matches at the end of "test.describe(".
WrapDescribe ==
    Rule2(<<Lit("describe("), Ws0, Str>>, <<T("test.describe("), C(1)>>,
          <<Lit("test.describe("), Ws0, Str>>,
          <<T("test."), T("test.describe("), C(1)>>)

\* /\bit\s*\(\s*(['"][^'"]+['"])\s*,\s*(?:async\s*)?\([^)]*\)\s*=>/g
WrapIt ==
    Rule(<<Lit("it("), Ws0, Str, Ws0, Lit(","), Ws0, Opt("async"), Ws0,
           Lit("("), Not0({")"}), Lit(")"), Ws0, Lit("=>")>>,
         <<T("test("), C(1), T(","), TS>> \o AsyncPageArrow)

\* content.split('\n').map(l => '    ' + l).join('\n'): four spaces before
\* the first line and after every line break.
Indent(content) ==
    <<SP, SP, SP, SP>>
        \o Replace(content, Rule(<<Exact(NL)>>, <<TN, TS, TS, TS, TS>>))

\* test.describe('<name>', () => {\n  test('main', async ({ page }) => {\n
WrapOpen(name) ==
    <<Tok("test.describe("), Sq(name), Tok(","), SP, Tok("("), Tok(")"), SP, Tok("=>"),
      SP, Tok("{"), NL, SP, SP, Tok("test("), Sq("main"), Tok(","), SP,
      Tok("async"), SP, Tok("("), Tok("{"), SP, Tok("page"), SP, Tok("}"), Tok(")"),
      SP, Tok("=>"), SP, Tok("{"), NL>>

\* \n  });\n});\n
WrapClose ==
    <<NL, SP, SP, Tok("}"), Tok(")"), Tok(";"), NL, Tok("}"), Tok(")"), Tok(";"), NL>>

wrapTest(content, name) ==
    IF HasPlaywrightImport(content) THEN content
    ELSE IF HasTestMarker(content)
         THEN ImportLine \o ApplyRules(content, <<WrapDescribe, WrapIt>>)
         ELSE ImportLine \o WrapOpen(name) \o Indent(content) \o WrapClose

----------------------------------------------------------------------------
(* The rewrite of one file's text by BrowserJSMigrator.migrate (cli.js      *)
(* 640-651).                                                               *)

\* /await\s+await/g -> await
FixAwait == Rule(<<Lit("await"), Ws1, Lit("await")>>, <<T("await")>>)

\* /\n{3,}/g -> \n\n
FixBlankLines == Rule(<<NL3>>, <<TN, TN>>)

\* for (const rules of Object.values(TRANSFORMATIONS)) for (... of rules)
\* content = content.replace(from, to): category after category, in "order".
\* The result holds the text and the categories applied, in the order applied.
RECURSIVE ApplyCategories(_, _, _)
ApplyCategories(st, table, order) ==
    IF st.text = <<>> THEN [text |-> <<>>, stages |-> st.stages \o order]
    ELSE IF order = <<>> THEN st
    ELSE ApplyCategories([text   |-> ApplyRules(st.text, table[Head(order)]),
                          stages |-> Append(st.stages, Head(order))],
                         table, Tail(order))

\* What migrate does to the text the catalog has transformed (cli.js 647-651).
BJS_Finish(transformed, name) ==
    [text   |-> ApplyRules(wrapTest(transformed.text, name),
                           <<FixAwait, FixBlankLines>>),
     stages |-> transformed.stages \o <<"wrapTest", "fixAwait", "fixBlankLines">>]

BJS_Rewrite(content, name) ==
    BJS_Finish(ApplyCategories([text |-> content, stages |-> <<>>],
                               BJS_TRANSFORMATIONS, BJS_CategoryOrder), name)

----------------------------------------------------------------------------
(* PlaywrightMigrator: TRANSFORMATIONS (cli.js 34-126) *)

\* driver.findElement(By.kind('...')) -> page.locator('pre...')
ByRule(kind, pre) ==
    Rule(<<Lit("driver.findElement("), Lit(kind), Str, Lit(")"), Lit(")")>>,
         <<T("page."), T("locator("), QP(pre, 1), T(")")>>)

PW_selectors == <<
    CallRule("document.getElementById(", "#"),
    CallRule("document.querySelector(", ""),
    CallRule("document.querySelectorAll(", ""),
    CallRule("document.getElementsByClassName(", "."),
    Rule(<<Lit("$"), Lit("("), Str, Lit(")")>>,
         <<T("page."), T("locator("), Q(1), T(")")>>),
    CallRule("jQuery(", ""),
    CallRule("cy.get(", ""),
    Rule(<<Lit("cy.contains("), Str, Lit(")")>>,
         <<T("page."), T("getByText("), Q(1), T(")")>>),
    ByRule("By.id(", "#"),
    ByRule("By.css(", ""),
    ByRule("By.xpath(", "xpath="),
    ByRule("By.className(", "."),
    Rule(<<Lit("driver.findElement("), Lit("By.name("), Str, Lit(")"), Lit(")")>>,
         <<T("page."), T("locator("), QName(1), T(")")>>),
    Rule(<<Lit("driver.findElement("), Lit("By.linkText("), Str, Lit(")"), Lit(")")>>,
         <<T("page."), T("getByRole("), TQ("link"), T(","), TS, T("{"), TS,
           T("name:"), TS, Q(1), TS, T("}"), T(")")>>),
    Rule(<<Lit("page."), Lit("$"), Lit("("), Str, Lit(")")>>,
         <<T("page."), T("locator("), Q(1), T(")")>>),
    Rule(<<Lit("page."), Lit("$"), Lit("$"), Lit("("), Str, Lit(")")>>,
         <<T("page."), T("locator("), Q(1), T(")")>>),
    CallRule("Selector(", "") >>

PW_navigation == <<
    Rule(<<Lit("cy.visit("), Str, Lit(")")>>, Goto),
    Rule(<<Lit("driver.get("), Str, Lit(")")>>, Goto),
    Rule(<<Lit("driver.navigate("), Lit(")"), Lit(".to("), Str, Lit(")")>>, Goto),
    Rule(<<Lit("browser.url("), Str, Lit(")")>>, Goto),
    Rule(<<Lit("window.location"), Ws0, Lit("="), Ws0, Str>>, Goto),
    Rule(<<Lit("window.location"), Lit(".href"), Ws0, Lit("="), Ws0, Str>>, Goto),
    Rule(<<Lit("cy.reload("), Lit(")")>>, AwaitPage("reload(")),
    Rule(<<Lit("driver.navigate("), Lit(")"), Lit(".refresh("), Lit(")")>>,
         AwaitPage("reload(")) >>

\* .name() -> .name()
SameCall(name) == Rule(<<Lit(name), Lit(")")>>, <<T(name), T(")")>>)

PW_actions == <<
    SameCall(".click("),
    SameCall(".dblclick("),
    Rule(<<Lit(".type("), Str, Lit(")")>>, <<T(".fill("), Q(1), T(")")>>),
    Rule(<<Lit(".sendKeys("), Str, Lit(")")>>, <<T(".fill("), Q(1), T(")")>>),
    Rule(<<Lit("cy"), Lit(".type("), Str, Lit(")")>>, <<T(".fill("), Q(1), T(")")>>),
    SameCall(".clear("),
    SameCall(".focus("),
    SameCall(".blur("),
    SameCall(".hover("),
    SameCall(".check("),
    SameCall(".uncheck("),
    Rule(<<Lit(".select("), Str, Lit(")")>>, <<T(".selectOption("), Q(1), T(")")>>),
    Rule(<<Lit(".submit("), Lit(")")>>, <<T(".press("), TQ("Enter"), T(")")>>) >>

PW_waits == <<
    Rule(<<Lit("cy.wait("), Digits, Lit(")")>>,
         <<T("// Removed cy.wait - Playwright auto-waits")>>),
    Rule(<<Lit("driver.sleep("), Digits, Lit(")")>>,
         <<T("// TODO: Replace with assertion"), TN,
           T("await"), TS, T("page."), T("waitForTimeout("), C(1), T(")")>>),
    Rule(<<Lit("page."), Lit("waitForSelector("), Str, Lit(")")>>,
         <<T("page."), T("locator("), Q(1), T(")"), T(".waitFor("), T(")")>>),
    Rule(<<Lit("page."), Lit("waitForNavigation("), Lit(")")>>,
         <<T("page."), T("waitForLoadState("), TQ("networkidle"), T(")")>>) >>

\* ;\nawait expect(element).<matcher>
ExpectElement(matcher) ==
    <<T(";"), TN, T("await"), TS, T("expect("), T("element"), T(")"), T(matcher)>>

\* .should('<chain>') -> ;\nawait expect(element).<matcher>()
Should0(chain, matcher) ==
    Rule(<<Lit(".should("), StrIs(chain), Lit(")")>>,
         ExpectElement(matcher) \o <<T(")")>>)

\* .should('<chain>', '<value>') -> ;\nawait expect(element).<matcher>('<value>')
Should1(chain, matcher) ==
    Rule(<<Lit(".should("), StrIs(chain), Lit(","), Ws0, Str, Lit(")")>>,
         ExpectElement(matcher) \o <<Q(1), T(")")>>)

PW_cypressAssertions == <<
    Should0("be.visible", ".toBeVisible("),
    Should0("not.be.visible", ".not.toBeVisible("),
    Should0("exist", ".toBeAttached("),
    Should0("not.exist", ".not.toBeAttached("),
    Should1("have.text", ".toHaveText("),
    Should1("contain", ".toContainText("),
    Should1("have.value", ".toHaveValue("),
    Should0("be.checked", ".toBeChecked("),
    Should0("be.disabled", ".toBeDisabled("),
    Rule(<<Lit(".should("), StrIs("have.length"), Lit(","), Ws0, Digits, Lit(")")>>,
         ExpectElement(".toHaveCount(") \o <<C(1), T(")")>>) >>

PW_assertions == <<
    Rule(<<Lit("expect("), Cap1({")"}), Lit(")"), Lit(".to.equal("), Cap1({")"}), Lit(")")>>,
         <<T("expect("), C(1), T(")"), T(".toBe("), C(2), T(")")>>),
    Rule(<<Lit("expect("), Cap1({")"}), Lit(")"), Lit(".to.be.true")>>,
         <<T("expect("), C(1), T(")"), T(".toBe("), T("true"), T(")")>>),
    Rule(<<Lit("expect("), Cap1({")"}), Lit(")"), Lit(".to.be.false")>>,
         <<T("expect("), C(1), T(")"), T(".toBe("), T("false"), T(")")>>),
    Rule(<<Lit("expect("), Cap1({")"}), Lit(")"), Lit(".to.include("), Cap1({")"}), Lit(")")>>,
         <<T("expect("), C(1), T(")"), T(".toContain("), C(2), T(")")>>),
    Rule(<<Lit("assert.equal("), Cap1({","}), Lit(","), Ws0, Cap1({")"}), Lit(")")>>,
         <<T("expect("), C(1), T(")"), T(".toBe("), C(2), T(")")>>) >>

PW_properties == <<
    Rule(<<Lit(".innerText")>>, Accessor(".textContent")),
    Rule(<<Lit(".innerHTML")>>, Accessor(".innerHTML")),
    Rule(<<Lit(".value"), NotAhead(EqStart \cup ParenStart)>>, Accessor(".inputValue")),
    Rule(<<Lit(".getAttribute("), Str, Lit(")")>>,
         <<T(".getAttribute("), Q(1), T(")")>>),
    Rule(<<Lit(".val("), Lit(")"), NotAhead(ParenStart)>>, Accessor(".inputValue")),
    Rule(<<Lit(".text("), Lit(")"), NotAhead(ParenStart)>>, Accessor(".textContent")) >>

PW_imports == <<
    Rule(<<Lit("const"), Ws0, Lit("{"), Not0({"}"}), Lit("}"), Ws0, Lit("="), Ws0,
           Lit("require("), StrIs("selenium-webdriver"), Lit(")"), Opt(";")>>, <<>>),
    Rule(<<Lit("import"), Ws0, Lit("{"), Not0({"}"}), Lit("}"), Ws0, Lit("from"), Ws0,
           StrIs("selenium-webdriver"), Opt(";")>>, <<>>),
    Rule(<<Lit("const"), Ws1, Lit("puppeteer"), Ws0, Lit("="), Ws0,
           Lit("require("), StrIs("puppeteer"), Lit(")"), Opt(";")>>, <<>>),
    Rule(<<Lit("import"), Ws1, Lit("puppeteer"), Ws1, Lit("from"), Ws0,
           StrIs("puppeteer"), Opt(";")>>, <<>>),
    Rule(<<Lit("///"), Ws0, Lit("<reference"), Ws1, Lit("types="), StrIs("cypress"),
           Ws0, Lit("/>")>>, <<>>) >>

\* Object.values(TRANSFORMATIONS): the categories in the order the object
\* literal declares them (cli.js 34-126).
PW_CategoryOrder ==
    <<"selectors", "navigation", "actions", "waits",
      "cypressAssertions", "assertions", "properties", "imports">>

PW_TRANSFORMATIONS ==
    [selectors |-> PW_selectors, navigation |-> PW_navigation,
     actions |-> PW_actions, waits |-> PW_waits,
     cypressAssertions |-> PW_cypressAssertions, assertions |-> PW_assertions,
     properties |-> PW_properties, imports |-> PW_imports]

----------------------------------------------------------------------------
(* The rewrite of one file's text by PlaywrightMigrator.migrateFile (cli.js *)
(* 273-300).                                                               *)

\* test.describe($1, () => {
DescribeHeader(prefix) ==
    prefix \o <<T("test.describe("), C(1), T(","), TS, T("("), T(")"), TS, T("=>"),
                TS, T("{")>>

\* (?:function\s*\(\)|(?:\(\)\s*=>))
FunctionOrArrow ==
    Alt(<< <<Lit("function("), Lit(")")>>,
           <<Lit("function"), Ws0, Lit("("), Lit(")")>>,
           <<Lit("("), Lit(")"), Ws0, Lit("=>")>> >>)

\* cli.js 285; not anchored, so it also matches at the end of "test.describe(".
PW_Describe ==
    Rule2(<<Lit("describe("), Ws0, Str, Ws0, Lit(","), Ws0, FunctionOrArrow, Ws0, Lit("{")>>,
          DescribeHeader(<<>>),
          <<Lit("test.describe("), Ws0, Str, Ws0, Lit(","), Ws0, FunctionOrArrow, Ws0,
            Lit("{")>>,
          DescribeHeader(<<T("test.")>>))

\* \s*(['"][^'"]+['"])\s*,\s*(?:async\s*)?\(?[^)]*\)?\s*=>\s*\{
CaseHeaderRest ==
    <<Ws0, Str, Ws0, Lit(","), Ws0, Opt("async"), Ws0, Opt("("), Not0({")"}), Opt(")"),
      Ws0, Lit("=>"), Ws0, Lit("{")>>

\* test($1, async ({ page }) => {
CaseHeader == <<T("test("), C(1), T(","), TS>> \o AsyncPageArrow \o <<TS, T("{")>>

\* cli.js 286: \bit\s*\( ...
PW_It == Rule(<<Lit("it(")>> \o CaseHeaderRest, CaseHeader)

\* cli.js 287: \btest\s*\( ...
PW_Test ==
    Rule(<<Alt(<< <<Lit("test(")>>, <<Lit("test"), Ws0, Lit("(")>> >>)>> \o CaseHeaderRest,
         CaseHeader)

\* cli.js 296-298: (?<!await\s)(<call>) -> await $1
AwaitWhole == <<T("await"), TS, Whole>>

PW_AwaitGoto  == Rule(<<NotAfterAwait, Lit("page."), Lit("goto(")>>, AwaitWhole)

PW_AwaitClick ==
    Rule(<<NotAfterAwait, Lit("page."), Lit("locator("), Not1({")"}), Lit(")"),
           Lit(".click(")>>, AwaitWhole)

PW_AwaitFill ==
    Rule(<<NotAfterAwait, Lit("page."), Lit("locator("), Not1({")"}), Lit(")"),
           Lit(".fill(")>>, AwaitWhole)

\* AddImport, had it not looked for the import first.
AddImport_Always(content) == ImportLine \o content

\* cli.js 290-293
AddImport(content) ==
    IF HasPlaywrightImport(content) THEN content ELSE ImportLine \o content

\* What migrateFile does to the text the catalog has transformed (cli.js
\* 284-300): the structure, the import, the awaits.
PW_Finish(transformed) ==
    [text   |-> ApplyRules(AddImport(ApplyRules(transformed.text,
                                                <<PW_Describe, PW_It, PW_Test>>)),
                           <<PW_AwaitGoto, PW_AwaitClick, PW_AwaitFill,
                             FixAwait, FixBlankLines>>),
     stages |-> transformed.stages
                    \o <<"structure", "addImport", "addAwait", "fixAwait",
                         "fixBlankLines">>]

PW_Rewrite(content) ==
    PW_Finish(ApplyCategories([text |-> content, stages |-> <<>>],
                              PW_TRANSFORMATIONS, PW_CategoryOrder))

\* PlaywrightMigrator.detectFramework (cli.js 194-204)
FromModule(m) == <<Lit("from"), Exact(SP), StrIs(m)>>

detectFramework(content) ==
    IF Test(<<In({"cy.visit(", "cy.get(", "cy.contains("})>>, content) THEN "cypress"
    ELSE IF TestAny(<< FromModule("selenium-webdriver"),
                       <<In({"driver.findElement(", "driver.get("})>> >>, content)
         THEN "selenium"
    ELSE IF TestAny(<< FromModule("puppeteer"),
                       <<Lit("page."), Lit("$"), Lit("(")>> >>, content)
         THEN "puppeteer"
    ELSE IF Test(FromModule("@playwright/test"), content) THEN "playwright"
    ELSE IF Test(FromModule("testcafe"), content) THEN "testcafe"
    ELSE IF Test(<<In({"document.getElementById(", "document.querySelector(",
                       "document.querySelectorAll("})>>, content) THEN "browser-js"
    ELSE IF Test(<<Lit("$"), Lit("("), StrOpen>>, content) THEN "jquery"
    ELSE IF Test(<<In({"describe(", "test.describe("})>>, content) THEN "jest/mocha"
    ELSE "unknown"

----------------------------------------------------------------------------
(* The command-line run (cli.js 408-441, 758-779) and the two migrators'    *)
(* state.                                                                  *)

MaxFiles == 2

Tools == {"playwright", "browserjs"}

\* --full, --analyze (also what no option runs), --migrate (PlaywrightMigrator only)
Modes(t) == IF t = "playwright" THEN {"full", "analyze", "migrate"}
            ELSE {"full", "analyze"}

\* Paths the include patterns of both migrators enumerate (cli.js 137-142, 546),
\* relative to the repository.
Names == <<[dir |-> "",       base |-> "a", suffix |-> ".test.js"],
           [dir |-> "",       base |-> "a", suffix |-> ".spec.js"],
           [dir |-> "tests/", base |-> "b", suffix |-> ".js"],
           [dir |-> "tests/", base |-> "c", suffix |-> ".test.js"]>>

PathOf(n) == n.dir \o n.base \o n.suffix

\* File contents of a run: no idiom at all; the README's "input.value = 'text'";
\* a lookup by id that is clicked.
PlainText == <<Tok("const"), SP, Tok("x"), Tok(";")>>
ValueText == <<Tok("input"), Tok(".value"), SP, Tok("="), SP, Sq("text"), Tok(";")>>
ClickText == <<Tok("document.getElementById("), Sq("a"), Tok(")"), Tok(".click("),
               Tok(")"), Tok(";")>>
RunTexts  == {PlainText, ValueText, ClickText}

VARIABLES
    tool,       \* which migrator runs
    mode,       \* the option the command line was given
    dryRun,     \* config.dryRun
    yes,        \* config.yes
    files,      \* what glob enumerates: a sequence of [name, text]
    pc,         \* where the run is
    idx,        \* the file the current loop is at
    migrated,   \* the local counter of PlaywrightMigrator.migrate
    report,     \* this.report
    analysis,   \* the analysis record being built
    disk,       \* the files and directories the run has created
    outputs,    \* the migrated files written: path -> text
    prompted,   \* whether inquirer.prompt has been answered
    summary,    \* what the final summary of runFull printed
    outcome,    \* how the run ended
    failed,     \* history: the reads and writes that threw, as [pass, file]
    attempted,  \* history: the files the migrate loop began to process
    stages,     \* history: the stages of the last rewrite, in the order applied
    src,        \* a text given to the rewrite alone
    out,        \* the successive rewrites of src
    sources,    \* the files given to the step synthesis: [name, cases, detection]
    vocabulary, \* the StepVocabulary of the run
    features,   \* the features built so far
    rendered    \* the step-definition bindings rendered at the end of the run

runVars == <<tool, mode, dryRun, yes, files, pc, idx, migrated, report, analysis,
             disk, outputs, prompted, summary, outcome, failed, attempted>>
bddVars == <<sources, vocabulary, features, rendered>>
vars == <<runVars, stages, src, out, bddVars>>

\* What a rewrite of a text alone leaves as it is.
restVars == <<tool, mode, dryRun, yes, files, idx, migrated, report, analysis, disk,
              outputs, prompted, summary, outcome, failed, attempted, src, bddVars>>

\* this.report = { analyzed: 0, migrated: 0, [skipped: 0,] errors: [] } (148, 552)
NewReport == [analyzed |-> 0, migrated |-> 0, skipped |-> 0, errors |-> <<>>]

\* PlaywrightMigrator.analyze 155-158; BrowserJSMigrator.analyze 559
NewAnalysis(t, n) ==
    [files |-> <<>>, total |-> IF t = "playwright" THEN n ELSE 0, browserJS |-> 0,
     counts |-> <<>>]

NoSummary == [shown |-> FALSE, migrated |-> 0, errors |-> 0, skipped |-> 0]

\* No step synthesis in this run.
BDDAtRest ==
    /\ sources = <<>>
    /\ vocabulary = <<>>
    /\ features = <<>>
    /\ rendered = <<>>

FileLists ==
    UNION {[1..n -> RunTexts] : n \in 0..MaxFiles}

\* The paths a repository holds in the order glob returns them: a run of
\* consecutive entries of Names.
NameLists ==
    {[i \in 1..w[2] |-> Names[w[1] + i]] :
        w \in {v \in (0..Len(Names)) \X (0..MaxFiles) : v[1] + v[2] <= Len(Names)}}

Init ==
    /\ tool \in Tools
    /\ mode \in Modes(tool)
    /\ dryRun \in BOOLEAN
    /\ yes \in BOOLEAN
    /\ \E texts \in FileLists, names \in NameLists :
          /\ Len(names) = Len(texts)
          /\ files = [i \in 1..Len(texts) |-> [name |-> names[i], text |-> texts[i]]]
    /\ pc = "cli"
    /\ idx = 0
    /\ migrated = 0
    /\ report = NewReport
    /\ analysis = NewAnalysis(tool, 0)
    /\ disk = {}
    /\ outputs = <<>>
    /\ prompted = FALSE
    /\ summary = NoSummary
    /\ outcome = "running"
    /\ failed = {}
    /\ attempted = <<>>
    /\ stages = <<>>
    /\ src = <<>>
    /\ out = <<>>
    /\ BDDAtRest

\* obj[k] = (obj[k] || 0) + 1
Bump(f, k) ==
    IF k \in DOMAIN f THEN [f EXCEPT ![k] = @ + 1]
    ELSE [j \in DOMAIN f \cup {k} |-> IF j = k THEN 1 ELSE f[j]]

RECURSIVE BumpAll(_, _)
BumpAll(f, ks) == IF ks = <<>> THEN f ELSE BumpAll(Bump(f, Head(ks)), Tail(ks))

\* fs.writeFileSync(path, text), a later write replacing an earlier one
WriteFile(fsys, path, text) ==
    [q \in DOMAIN fsys \cup {path} |-> IF q = path THEN text ELSE fsys[q]]

\* The action of the command (cli.js 430-440; 776-778).
Main ==
    /\ pc = "cli"
    /\ pc' = IF mode = "migrate" THEN "setup" ELSE "analyze"
    /\ idx' = 1
    /\ analysis' = IF mode = "migrate" THEN analysis
                   ELSE NewAnalysis(tool, Len(files))
    /\ UNCHANGED <<tool, mode, dryRun, yes, files, migrated, report, disk, outputs,
                   prompted, summary, outcome, failed, attempted, stages, src, out, bddVars>>

\* Analyzed, had summary.total++ stood inside the test of patterns.length.
Analyzed_TotalOfCandidates(t, a, path, framework, patterns) ==
    IF t = "playwright"
    THEN [a EXCEPT !.files = Append(@, [path |-> path, framework |-> framework]),
                   !.counts = Bump(@, framework)]
    ELSE IF patterns # <<>>
    THEN [a EXCEPT !.files = Append(@, [path |-> path, patterns |-> patterns]),
                   !.browserJS = @ + 1,
                   !.counts = BumpAll(@, patterns),
                   !.total = @ + 1]
    ELSE a

\* What one file adds to the analysis: analyzeFile (cli.js 178-192) and
\* 162-164; 565-574.
Analyzed(t, a, path, framework, patterns) ==
    IF t = "playwright"
    THEN [a EXCEPT !.files = Append(@, [path |-> path, framework |-> framework]),
                   !.counts = Bump(@, framework)]
    ELSE IF patterns # <<>>
    THEN [a EXCEPT !.files = Append(@, [path |-> path, patterns |-> patterns]),
                   !.browserJS = @ + 1,
                   !.counts = BumpAll(@, patterns),
                   !.total = @ + 1]
    ELSE [a EXCEPT !.total = @ + 1]

\* One turn of the loop of analyze (cli.js 160-165; 561-575).  readFileSync is
\* not in a try: when it throws, analyze and its caller end with the exception.
AnalyzeFile ==
    /\ pc = "analyze"
    /\ idx <= Len(files)
    /\ \E readOk \in BOOLEAN :
          IF ~readOk
          THEN /\ pc' = "ended"
               /\ outcome' = "exception"
               /\ failed' = failed \cup {[pass |-> "analyze", file |-> idx]}
               /\ UNCHANGED <<idx, analysis>>
          ELSE /\ analysis' = Analyzed(tool, analysis, PathOf(files[idx].name),
                                       detectFramework(files[idx].text),
                                       detectPatterns(files[idx].text))
               /\ idx' = idx + 1
               /\ UNCHANGED <<pc, outcome, failed>>
    /\ UNCHANGED <<tool, mode, dryRun, yes, files, migrated, report, disk, outputs,
                   prompted, summary, attempted, stages, src, out, bddVars>>

\* Candidates, had BrowserJSMigrator.runFull tested summary.total, the count
\* of the files scanned.
Candidates_Scanned(t, a) == IF t = "playwright" THEN Len(a.files) ELSE a.total

\* The number runFull tests for zero (cli.js 363; 725).
Candidates(t, a) == IF t = "playwright" THEN Len(a.files) ELSE a.browserJS

\* The end of analyze (cli.js 167-175; 577-585) and what the caller does next:
\* --analyze is over; runFull returns when nothing was found (363-366; 725),
\* asks unless --dry-run or --yes (368; 727), else goes on to the set-up.
AnalyzeEnd ==
    /\ pc = "analyze"
    /\ idx > Len(files)
    /\ disk' = IF dryRun THEN disk ELSE disk \cup {"migration-analysis.json"}
    /\ report' = [report EXCEPT !.analyzed =
                     IF tool = "playwright" THEN Len(files) ELSE analysis.browserJS]
    /\ IF mode # "full"
       THEN pc' = "ended" /\ outcome' = "analyzed"
       ELSE IF Candidates(tool, analysis) = 0
       THEN pc' = "ended" /\ outcome' = "nothing found"
       ELSE IF ~dryRun /\ ~yes
       THEN pc' = "prompt" /\ outcome' = outcome
       ELSE pc' = "setup" /\ outcome' = outcome
    /\ UNCHANGED <<tool, mode, dryRun, yes, files, idx, migrated, analysis, outputs,
                   prompted, summary, failed, attempted, stages, src, out, bddVars>>

\* inquirer.prompt and the user's answer (cli.js 369-373; 728-729).
Prompt ==
    /\ pc = "prompt"
    /\ prompted' = TRUE
    /\ \E proceed \in BOOLEAN :
          IF proceed THEN pc' = "setup" /\ outcome' = outcome
          ELSE pc' = "ended" /\ outcome' = "declined"
    /\ UNCHANGED <<tool, mode, dryRun, yes, files, idx, migrated, report, analysis,
                   disk, outputs, summary, failed, attempted, stages, src, out, bddVars>>

\* Setup, had its two writes not been under the test of config.dryRun.
Setup_Unguarded ==
    /\ pc = "setup"
    /\ disk' = disk \cup {"playwright.config.ts", "package.json"}
    /\ pc' = "migrate begin"
    /\ UNCHANGED <<tool, mode, dryRun, yes, files, idx, migrated, report, analysis,
                   outputs, prompted, summary, outcome, failed, attempted, stages,
                   src, out, bddVars>>

\* setupProject (cli.js 314-357); setup (687-719).
Setup ==
    /\ pc = "setup"
    /\ disk' = IF dryRun THEN disk
               ELSE disk \cup {"playwright.config.ts", "package.json"}
    /\ pc' = "migrate begin"
    /\ UNCHANGED <<tool, mode, dryRun, yes, files, idx, migrated, report, analysis,
                   outputs, prompted, summary, outcome, failed, attempted, stages,
                   src, out, bddVars>>

\* The start of migrate, up to its loop (cli.js 252-258; 628-632).
MigrateBegin ==
    /\ pc = "migrate begin"
    /\ disk' = IF dryRun THEN disk ELSE disk \cup {"tests/"}
    /\ migrated' = 0
    /\ idx' = 1
    /\ pc' = "migrate"
    /\ UNCHANGED <<tool, mode, dryRun, yes, files, report, analysis, outputs,
                   prompted, summary, outcome, failed, attempted, stages, src, out, bddVars>>

\* relativePath.replace(/\.(cy|spec|test)\.(js|ts)$/, '.spec.ts') (cli.js 304)
PW_OutSuffix(suffix) ==
    IF suffix \in {".cy.js", ".cy.ts", ".spec.js", ".spec.ts", ".test.js", ".test.ts"}
    THEN ".spec.ts" ELSE suffix

\* relative.replace(/\.js$/, '.spec.ts') (cli.js 654)
BJS_OutSuffix(suffix) ==
    CASE suffix = ".js"      -> ".spec.ts"
      [] suffix = ".test.js" -> ".test.spec.ts"
      [] suffix = ".spec.js" -> ".spec.spec.ts"
      [] suffix = ".cy.js"   -> ".cy.spec.ts"
      [] OTHER               -> suffix

\* path.join(outputDir, ...), the output directory being the default "tests"
OutPath(t, n) ==
    "tests/" \o n.dir \o n.base
        \o (IF t = "playwright" THEN PW_OutSuffix(n.suffix) ELSE BJS_OutSuffix(n.suffix))

\* path.basename(filePath, '.js').replace(/[.-]/g, ' ') (cli.js 667)
WrapName(n) ==
    n.base \o (CASE n.suffix = ".test.js" -> " test"
                 [] n.suffix = ".spec.js" -> " spec"
                 [] n.suffix = ".cy.js"   -> " cy"
                 [] OTHER                 -> "")

Rewrite(t, content, name) ==
    IF t = "playwright" THEN PW_Rewrite(content) ELSE BJS_Rewrite(content, name)

\* What can throw in one turn of the migrate loop: the read, or, unless
\* --dry-run, mkdirSync/writeFileSync.
Faults == IF dryRun THEN {"none", "read"} ELSE {"none", "read", "write"}

ErrorMessage(fault) == IF fault = "read" THEN "ENOENT" ELSE "EACCES"

\* PW_MigrateOne, had the shared patterns kept their position from the file
\* before: past the end of a text as short, they replace nothing in it.
PW_MigrateOne_StalePatterns(f, r, fault) ==
    /\ IF fault = "none"
       THEN /\ migrated' = migrated + 1
            /\ UNCHANGED <<report, failed>>
       ELSE /\ report' = [report EXCEPT !.errors =
                   Append(@, [file |-> PathOf(f.name), error |-> ErrorMessage(fault)])]
            /\ failed' = failed \cup {[pass |-> "migrate", file |-> idx]}
            /\ UNCHANGED migrated
    /\ outputs' = IF fault = "none" /\ ~dryRun
                  THEN WriteFile(outputs, OutPath(tool, f.name),
                                 IF idx > 1 THEN f.text ELSE r.text)
                  ELSE outputs
    /\ stages' = IF fault = "read" THEN stages ELSE r.stages

\* PW_MigrateOne, had migrated++ stood before the call of migrateFile.
PW_MigrateOne_CountedFirst(f, r, fault) ==
    /\ migrated' = migrated + 1
    /\ IF fault = "none"
       THEN UNCHANGED <<report, failed>>
       ELSE /\ report' = [report EXCEPT !.errors =
                   Append(@, [file |-> PathOf(f.name), error |-> ErrorMessage(fault)])]
            /\ failed' = failed \cup {[pass |-> "migrate", file |-> idx]}
    /\ outputs' = IF fault = "none" /\ ~dryRun
                  THEN WriteFile(outputs, OutPath(tool, f.name), r.text)
                  ELSE outputs
    /\ stages' = IF fault = "read" THEN stages ELSE r.stages

\* One turn of the loop of PlaywrightMigrator.migrate (cli.js 259-267), with
\* migrateFile (273-312) in its try: f is the file, r its rewrite.
PW_MigrateOne(f, r, fault) ==
    /\ IF fault = "none"
       THEN /\ migrated' = migrated + 1
            /\ UNCHANGED <<report, failed>>
       ELSE /\ report' = [report EXCEPT !.errors =
                   Append(@, [file |-> PathOf(f.name), error |-> ErrorMessage(fault)])]
            /\ failed' = failed \cup {[pass |-> "migrate", file |-> idx]}
            /\ UNCHANGED migrated
    /\ outputs' = IF fault = "none" /\ ~dryRun
                  THEN WriteFile(outputs, OutPath(tool, f.name), r.text)
                  ELSE outputs
    /\ stages' = IF fault = "read" THEN stages ELSE r.stages

PW_MigrateFile ==
    /\ tool = "playwright"
    /\ pc = "migrate"
    /\ idx <= Len(files)
    /\ attempted' = Append(attempted, idx)
    /\ \E fault \in Faults : PW_MigrateOne(files[idx], PW_Rewrite(files[idx].text), fault)
    /\ idx' = idx + 1
    /\ UNCHANGED <<tool, mode, dryRun, yes, files, pc, analysis, disk, prompted,
                   summary, outcome, src, out, bddVars>>

\* BJS_MigrateOne, had its skip branch fallen through to the count of
\* migrated files.
BJS_MigrateOne_SkipCounted(f, skip, r, fault) ==
    IF fault = "read" \/ (fault = "write" /\ ~skip)
    THEN /\ pc' = "ended"
         /\ outcome' = "exception"
         /\ failed' = failed \cup {[pass |-> "migrate", file |-> idx]}
         /\ stages' = IF fault = "read" THEN stages ELSE r.stages
         /\ UNCHANGED <<idx, report, outputs>>
    ELSE /\ fault = "none"
         /\ IF skip
            THEN /\ report' = [report EXCEPT !.skipped = @ + 1, !.migrated = @ + 1]
                 /\ UNCHANGED <<outputs, stages>>
            ELSE /\ report' = [report EXCEPT !.migrated = @ + 1]
                 /\ outputs' = IF dryRun THEN outputs
                               ELSE WriteFile(outputs, OutPath(tool, f.name), r.text)
                 /\ stages' = r.stages
         /\ idx' = idx + 1
         /\ UNCHANGED <<pc, outcome, failed>>

\* One turn of the loop of BrowserJSMigrator.migrate (cli.js 634-661): f is the
\* file, skip whether detectPatterns found nothing in it, r its rewrite.
\* Nothing is in a try: when the read or the write throws, migrate and its
\* caller end with the exception.
BJS_MigrateOne(f, skip, r, fault) ==
    IF fault = "read" \/ (fault = "write" /\ ~skip)
    THEN /\ pc' = "ended"
         /\ outcome' = "exception"
         /\ failed' = failed \cup {[pass |-> "migrate", file |-> idx]}
         /\ stages' = IF fault = "read" THEN stages ELSE r.stages
         /\ UNCHANGED <<idx, report, outputs>>
    ELSE /\ fault = "none"
         /\ IF skip
            THEN /\ report' = [report EXCEPT !.skipped = @ + 1]
                 /\ UNCHANGED <<outputs, stages>>
            ELSE /\ report' = [report EXCEPT !.migrated = @ + 1]
                 /\ outputs' = IF dryRun THEN outputs
                               ELSE WriteFile(outputs, OutPath(tool, f.name), r.text)
                 /\ stages' = r.stages
         /\ idx' = idx + 1
         /\ UNCHANGED <<pc, outcome, failed>>

BJS_MigrateFile ==
    /\ tool = "browserjs"
    /\ pc = "migrate"
    /\ idx <= Len(files)
    /\ attempted' = Append(attempted, idx)
    /\ \E fault \in Faults :
          BJS_MigrateOne(files[idx], detectPatterns(files[idx].text) = <<>>,
                         BJS_Rewrite(files[idx].text, WrapName(files[idx].name)), fault)
    /\ UNCHANGED <<tool, mode, dryRun, yes, files, migrated, analysis, disk, prompted,
                   summary, src, out, bddVars>>

\* The end of migrate (cli.js 269-270; 663) and the return to its caller:
\* runFull prints its summary next, --migrate is over.
MigrateEnd ==
    /\ pc = "migrate"
    /\ idx > Len(files)
    /\ report' = IF tool = "playwright" THEN [report EXCEPT !.migrated = migrated]
                 ELSE report
    /\ IF mode = "full" THEN pc' = "summary" /\ outcome' = outcome
       ELSE pc' = "ended" /\ outcome' = "migrated"
    /\ UNCHANGED <<tool, mode, dryRun, yes, files, idx, migrated, analysis, disk,
                   outputs, prompted, summary, failed, attempted, stages, src, out, bddVars>>

\* The final summary of runFull (cli.js 379-387: "Files migrated", "Errors";
\* 735-738: "Migrated", "Skipped").
Summary ==
    /\ pc = "summary"
    /\ summary' = IF tool = "playwright"
                  THEN [shown |-> TRUE, migrated |-> report.migrated,
                        errors |-> Len(report.errors), skipped |-> 0]
                  ELSE [shown |-> TRUE, migrated |-> report.migrated,
                        errors |-> 0, skipped |-> report.skipped]
    /\ pc' = "ended"
    /\ outcome' = "summary"
    /\ UNCHANGED <<tool, mode, dryRun, yes, files, idx, migrated, report, analysis,
                   disk, outputs, prompted, failed, attempted, stages, src, out, bddVars>>

Next ==
    \/ Main
    \/ AnalyzeFile
    \/ AnalyzeEnd
    \/ Prompt
    \/ Setup
    \/ MigrateBegin
    \/ PW_MigrateFile
    \/ BJS_MigrateFile
    \/ MigrateEnd
    \/ Summary

Spec == Init /\ [][Next]_vars

----------------------------------------------------------------------------
(* The rewrite alone: PW_Rewrite / BJS_Rewrite on a text, then on its own   *)
(* output, and one category of the catalog with its rules reordered.       *)

MaxStatements == 2

\* import { test } from <module>;\n with the module quoted as q says
ImportOf(q) ==
    <<Tok("import"), SP, Tok("{"), SP, Tok("test"), SP, Tok("}"), SP, Tok("from"), SP,
      q, Tok(";"), NL>>

\* The statements a text is made of.
Statements == {
    ImportOf(Sq("@playwright/test")),
    ImportOf(Dq("@playwright/test")),
    <<Tok("page."), Tok("$"), Tok("("), Sq("#a"), Tok(")"), Tok(".click("), Tok(")"),
      Tok(";"), NL>>,
    <<Tok("cy"), Tok(".type("), Sq("a"), Tok(")"), Tok(";"), NL>>,
    <<Tok("localStorage.setItem("), Sq("k"), Tok(","), SP, Tok("el"), Tok(".innerText"),
      Tok(")"), Tok(";"), NL>>,
    PlainText \o <<NL>>,
    <<Tok("page."), Tok("goto("), Sq("/x"), Tok(")"), Tok(";"), NL>>,
    <<Tok("it("), Sq("t"), Tok(","), SP, Tok("("), Tok(")"), SP, Tok("=>"), SP,
      Tok("{"), Tok("}"), Tok(")"), Tok(";"), NL>>,
    <<Tok("it("), Sq("t"), Tok(","), SP, Tok("function"), SP, Tok("("), Tok(")"), SP,
      Tok("{"), Tok("}"), Tok(")"), Tok(";"), NL>>,
    <<Tok("await"), SP, Tok("await"), SP>> }

RECURSIVE Flatten(_)
Flatten(parts) == IF parts = <<>> THEN <<>> ELSE Head(parts) \o Flatten(Tail(parts))

Texts == {Flatten(parts) : parts \in UNION {[1..n -> Statements] : n \in 0..MaxStatements}}

\* The name wrapTest is given for a text rewritten alone: that of a.js.
AloneName == "a"

\* The run's variables, at rest while a text is rewritten alone.
RunAtRest ==
    /\ mode = "full"
    /\ dryRun = TRUE
    /\ yes = TRUE
    /\ files = <<>>
    /\ idx = 0
    /\ migrated = 0
    /\ report = NewReport
    /\ analysis = NewAnalysis(tool, 0)
    /\ disk = {}
    /\ outputs = <<>>
    /\ prompted = FALSE
    /\ summary = NoSummary
    /\ outcome = "running"
    /\ failed = {}
    /\ attempted = <<>>

InitRewrite ==
    /\ tool \in Tools
    /\ src \in Texts
    /\ pc = "text"
    /\ out = <<>>
    /\ stages = <<>>
    /\ RunAtRest
    /\ BDDAtRest

\* out and stages after a rewrite whose result is r.
Rewritten(r) ==
    /\ out' = Append(out, r.text)
    /\ stages' = r.stages

\* The rewrite of the text.
RewriteText ==
    /\ pc = "text"
    /\ pc' = "once"
    /\ Rewritten(Rewrite(tool, src, AloneName))
    /\ UNCHANGED restVars

\* The rewrite of the output of the rewrite.
RewriteOutput ==
    /\ pc = "once"
    /\ pc' = "twice"
    /\ Rewritten(Rewrite(tool, out[1], AloneName))
    /\ UNCHANGED restVars

NextRewrite ==
    \/ RewriteText
    \/ RewriteOutput

SpecRewrite == InitRewrite /\ [][NextRewrite]_vars

TableOf(t) == IF t = "playwright" THEN PW_TRANSFORMATIONS ELSE BJS_TRANSFORMATIONS
OrderOf(t) == IF t = "playwright" THEN PW_CategoryOrder ELSE BJS_CategoryOrder

\* The rules with rule j moved to the front.
MoveToFront(rules, j) ==
    <<rules[j]>> \o SubSeq(rules, 1, j - 1) \o SubSeq(rules, j + 1, Len(rules))

\* One category of the catalog applied to the text, its rules in the order
\* declared and with one of them moved to the front.
ReorderCategory ==
    /\ pc = "text"
    /\ pc' = "category"
    /\ \E c \in 1..Len(OrderOf(tool)) :
          \E j \in 1..Len(TableOf(tool)[OrderOf(tool)[c]]) :
             /\ out' = <<ApplyRules(src, TableOf(tool)[OrderOf(tool)[c]]),
                         ApplyRules(src, MoveToFront(TableOf(tool)[OrderOf(tool)[c]], j))>>
             /\ stages' = <<OrderOf(tool)[c]>>
    /\ UNCHANGED restVars

NextReorder ==
    \/ ReorderCategory

SpecReorder == InitRewrite /\ [][NextReorder]_vars

----------------------------------------------------------------------------
(* The step synthesis (spec sections 4.4-4.6): a phrase is the sequence of  *)
(* its words, a literal argument being one quoted lexeme; the bindings      *)
(* always emitted are those of common.steps.ts.                             *)

\* The parameter type {string} of a step expression.
Param == Tok("{string}")

Binding(phase, words) == [phase |-> phase, expr |-> Lex(words)]

\* common.steps.ts 9-112, in the order of the file.
Baseline == <<
    Binding("Given", <<"I", "am", "on", "the", "application", "page">>),
    Binding("Given", <<"I", "navigate", "to", "{string}">>),
    Binding("Given", <<"I", "am", "on", "the", "{string}", "page">>),
    Binding("When",  <<"I", "click", "on", "{string}">>),
    Binding("When",  <<"I", "enter", "{string}", "in", "the", "{string}", "field">>),
    Binding("When",  <<"I", "clear", "the", "{string}", "field">>),
    Binding("When",  <<"I", "check", "the", "{string}", "checkbox">>),
    Binding("When",  <<"I", "select", "{string}", "from", "{string}">>),
    Binding("When",  <<"I", "hover", "over", "{string}">>),
    Binding("When",  <<"I", "press", "{string}">>),
    Binding("Then",  <<"I", "should", "see", "{string}">>),
    Binding("Then",  <<"I", "should", "not", "see", "{string}">>),
    Binding("Then",  <<"the", "element", "{string}", "should", "be", "visible">>),
    Binding("Then",  <<"the", "element", "{string}", "should", "contain", "{string}">>),
    Binding("Then",  <<"the", "input", "{string}", "should", "have", "value", "{string}">>),
    Binding("Then",  <<"the", "URL", "should", "be", "{string}">>),
    Binding("Then",  <<"the", "URL", "should", "contain", "{string}">>),
    Binding("Then",  <<"the", "page", "title", "should", "be", "{string}">>) >>

\* A step expression matches a step's text when the words are the same and
\* every {string} stands where the text has a quoted literal.
RECURSIVE MatchesStep(_, _)
MatchesStep(expr, phrase) ==
    IF expr = <<>> \/ phrase = <<>> THEN expr = <<>> /\ phrase = <<>>
    ELSE /\ IF Head(expr) = Param THEN IsStr(Head(phrase)) ELSE Head(expr) = Head(phrase)
         /\ MatchesStep(Tail(expr), Tail(phrase))

\* A phrasing with its literal arguments put in, each in double quotes.
RECURSIVE Fill(_, _)
Fill(expr, args) ==
    IF expr = <<>> THEN <<>>
    ELSE IF Head(expr) = Param
    THEN <<Dq(Head(args))>> \o Fill(Tail(expr), Tail(args))
    ELSE <<Head(expr)>> \o Fill(Tail(expr), args)

\* SynthesizedStep
Step(phase, words, args) == [phase |-> phase, phrase |-> Fill(Lex(words), args)]

\* The phrasings of 4.4.
NavigateTo(url) == Step("Given", <<"I", "navigate", "to", "{string}">>, <<url>>)
OnApplicationPage == Step("Given", <<"I", "am", "on", "the", "application", "page">>, <<>>)
Enter(value, selector) ==
    Step("When", <<"I", "enter", "{string}", "in", "the", "{string}", "field">>,
         <<value, selector>>)
ClickOn(selector) == Step("When", <<"I", "click", "on", "{string}">>, <<selector>>)
PerformTestActions == Step("When", <<"I", "perform", "the", "test", "actions">>, <<>>)
SeeExpectedContent == Step("Then", <<"I", "should", "see", "the", "expected", "content">>, <<>>)
AssertionPasses == Step("Then", <<"the", "assertion", "should", "pass">>, <<>>)
ContainsExpectedText ==
    Step("Then", <<"the", "element", "should", "contain", "the", "expected", "text">>, <<>>)
SeeExpectedResult == Step("Then", <<"I", "should", "see", "the", "expected", "result">>, <<>>)

\* The idioms of 4.4 step 2, (a) to (f), in their priority order.
ActionKinds == <<"id value", "selector value", "jquery value",
                 "id click", "selector click", "jquery click">>

Match(kind, selector, value) == [kind |-> kind, selector |-> selector, value |-> value]

\* The When step of one extracted match.
WhenOf(a) ==
    CASE a.kind = "id value"      -> Enter(a.value, "#" \o a.selector)
      [] a.kind = "id click"      -> ClickOn("#" \o a.selector)
      [] a.kind \in {"selector value", "jquery value"} -> Enter(a.value, a.selector)
      [] OTHER                    -> ClickOn(a.selector)

\* A sequence without the repetitions of its elements.
RECURSIVE Distinct(_)
Distinct(seq) ==
    IF seq = <<>> THEN <<>>
    ELSE IF \E i \in 1..(Len(seq) - 1) : seq[i] = seq[Len(seq)]
    THEN Distinct(SubSeq(seq, 1, Len(seq) - 1))
    ELSE Append(Distinct(SubSeq(seq, 1, Len(seq) - 1)), seq[Len(seq)])

\* The matches of one idiom, in the order of the text.
RECURSIVE OfKind(_, _)
OfKind(actions, kind) ==
    IF actions = <<>> THEN <<>>
    ELSE IF Head(actions).kind = kind
    THEN <<Head(actions)>> \o OfKind(Tail(actions), kind)
    ELSE OfKind(Tail(actions), kind)

StepsOf(matches) == [i \in 1..Len(matches) |-> WhenOf(matches[i])]

\* One step per distinct match of each idiom from the k-th on.
RECURSIVE WhenSteps(_, _)
WhenSteps(actions, k) ==
    IF k > Len(ActionKinds) THEN <<>>
    ELSE StepsOf(Distinct(OfKind(actions, ActionKinds[k]))) \o WhenSteps(actions, k + 1)

\* 4.4 step 1: exactly one Given.
GivenSteps(d) == IF d.url # "" THEN <<NavigateTo(d.url)>> ELSE <<OnApplicationPage>>

\* 4.4 step 3: the checks, each on its own, in this order.
ThenChecks(d) ==
    (IF d.reads THEN <<SeeExpectedContent>> ELSE <<>>)
        \o (IF d.asserts THEN <<AssertionPasses>> ELSE <<>>)
        \o (IF d.contains THEN <<ContainsExpectedText>> ELSE <<>>)

\* OrFallback, had the placeholder not been emitted.
OrFallback_None(steps, fallback) == steps

\* The placeholder of a phase no step was produced for.
OrFallback(steps, fallback) == IF steps = <<>> THEN <<fallback>> ELSE steps

\* synthesize(text, detection)
Synthesize(d) ==
    GivenSteps(d) \o OrFallback(WhenSteps(d.actions, 1), PerformTestActions)
                  \o OrFallback(ThenChecks(d), SeeExpectedResult)

\* 4.5: one scenario per test case, "Main test" when the file has none.
CasesOf(cases) == IF cases = <<>> THEN <<"Main test">> ELSE cases

BuildFeature(name, cases, steps) ==
    [file |-> name,
     scenarios |-> [i \in 1..Len(CasesOf(cases)) |->
                       [name |-> CasesOf(cases)[i], steps |-> steps]]]

\* Insert, had it appended without looking.
Insert_Always(vocab, x) == Append(vocab, x)

\* The insertion into a set kept in the order of first insertion.
Insert(vocab, x) ==
    IF \E i \in 1..Len(vocab) : vocab[i] = x THEN vocab ELSE Append(vocab, x)

RECURSIVE InsertAll(_, _)
InsertAll(vocab, xs) ==
    IF xs = <<>> THEN vocab ELSE InsertAll(Insert(vocab, Head(xs)), Tail(xs))

\* The binding of a phrase of the vocabulary: its own text is its expression.
BindingOf(step) == [phase |-> step.phase, expr |-> step.phrase]

\* 4.6: render(vocabulary), the baseline and one binding per phrase.
Render(vocab) == InsertAll(Baseline, [i \in 1..Len(vocab) |-> BindingOf(vocab[i])])

\* DetectionResult, with what 4.4 reads from the text.
Detection(ids, url, actions, checks) ==
    [idiomIds |-> ids, url |-> url, actions |-> actions,
     reads |-> checks[1], asserts |-> checks[2], contains |-> checks[3]]

URLs == {"", "/login"}

ActionLists ==
    {<<>>,
     <<Match("id value", "email", "a@b.com"), Match("id click", "login-btn", "")>>,
     <<Match("selector click", ".login-btn", ""), Match("jquery click", ".login-btn", "")>>}

Checks == {<<FALSE, FALSE, FALSE>>, <<TRUE, FALSE, FALSE>>, <<FALSE, TRUE, TRUE>>}

\* The idioms of a detection: an element lookup at least, which alone gives
\* no literal argument.
IdiomsOf(url, actions) ==
    {"lookup"} \cup {actions[i].kind : i \in 1..Len(actions)}
               \cup (IF url # "" THEN {"navigation"} ELSE {})

\* A text without any idiom, and the detections of texts with some.
NoIdiom == Detection({}, "", <<>>, <<FALSE, FALSE, FALSE>>)

Detections ==
    {NoIdiom} \cup {Detection(IdiomsOf(u, a), u, a, c) :
                       u \in URLs, a \in ActionLists, c \in Checks}

\* The test cases extracted from a file.
TestCases == {<<>>, <<"logs in", "logs out">>}

SourceLists ==
    UNION {[1..n -> Detections \X TestCases] : n \in 0..MaxFiles}

InitBDD ==
    /\ tool = "browserjs"
    /\ \E list \in SourceLists :
          sources = [i \in 1..Len(list) |->
                        [name |-> Names[i].base, detection |-> list[i][1],
                         cases |-> list[i][2]]]
    /\ vocabulary = <<>>
    /\ features = <<>>
    /\ rendered = <<>>
    /\ pc = "synthesize"
    /\ src = <<>>
    /\ out = <<>>
    /\ stages = <<>>
    /\ RunAtRest

\* What a file with an idiom adds: its feature, and its phrases to the
\* vocabulary.
Synthesized(f, steps) ==
    /\ features' = Append(features, BuildFeature(f.name, f.cases, steps))
    /\ vocabulary' = InsertAll(vocabulary, steps)

\* The next file of the run: excluded when nothing was detected in it.
SynthesizeFile ==
    /\ pc = "synthesize"
    /\ idx < Len(sources)
    /\ idx' = idx + 1
    /\ IF sources[idx + 1].detection.idiomIds = {}
       THEN UNCHANGED <<features, vocabulary>>
       ELSE Synthesized(sources[idx + 1], Synthesize(sources[idx + 1].detection))
    /\ UNCHANGED <<tool, mode, dryRun, yes, files, pc, migrated, report, analysis,
                   disk, outputs, prompted, summary, outcome, failed, attempted,
                   stages, src, out, sources, rendered>>

\* The end of the run: the frozen vocabulary is rendered once.
RenderSteps ==
    /\ pc = "synthesize"
    /\ idx = Len(sources)
    /\ rendered' = Render(vocabulary)
    /\ pc' = "rendered"
    /\ UNCHANGED <<tool, mode, dryRun, yes, files, idx, migrated, report, analysis,
                   disk, outputs, prompted, summary, outcome, failed, attempted,
                   stages, src, out, sources, vocabulary, features>>

NextBDD ==
    \/ SynthesizeFile
    \/ RenderSteps

SpecBDD == InitBDD /\ [][NextBDD]_vars

----------------------------------------------------------------------------
(* The detection alone: BrowserJSMigrator.analyze over one file. *)

\* The statements of a text given to detectPatterns.
DetectStatements == {
    <<Tok("document.querySelectorAll("), Sq("li"), Tok(")"), Tok(";"), NL>>,
    <<Tok("document.querySelector("), Sq(".btn"), Tok(")"), Tok(".click("), Tok(")"),
      Tok(";"), NL>>,
    <<Tok("$"), Tok("("), Sq("#submit"), Tok(")"), Tok(".click("), Tok(")"), Tok(";"), NL>>,
    <<Tok("el"), Tok(".innerText"), Tok(";"), NL>>,
    <<Tok("window.location"), SP, Tok("="), SP, Sq("/page"), Tok(";"), NL>>,
    <<Tok("setTimeout("), Tok("fn"), Tok(","), SP, Num("1000"), Tok(")"), Tok(";"), NL>>,
    <<Tok("alert("), Sq("message"), Tok(")"), Tok(";"), NL>>,
    PlainText \o <<NL>> }

DetectTexts ==
    {Flatten(parts) : parts \in UNION {[1..n -> DetectStatements] : n \in 0..MaxStatements}}

InitDetect ==
    /\ tool = "browserjs"
    /\ mode = "analyze"
    /\ dryRun \in BOOLEAN
    /\ yes = TRUE
    /\ \E text \in DetectTexts : files = <<[name |-> Names[1], text |-> text]>>
    /\ pc = "cli"
    /\ idx = 0
    /\ migrated = 0
    /\ report = NewReport
    /\ analysis = NewAnalysis(tool, 0)
    /\ disk = {}
    /\ outputs = <<>>
    /\ prompted = FALSE
    /\ summary = NoSummary
    /\ outcome = "running"
    /\ failed = {}
    /\ attempted = <<>>
    /\ stages = <<>>
    /\ src = <<>>
    /\ out = <<>>
    /\ BDDAtRest

NextDetect ==
    \/ Main
    \/ AnalyzeFile
    \/ AnalyzeEnd

SpecDetect == InitDetect /\ [][NextDetect]_vars

----------------------------------------------------------------------------
(* Claims about the run *)

\* The files of the migrate pass whose read or write threw.
FailedInMigrate == {f \in failed : f.pass = "migrate"}

\* C1: in both migrators' migrate, a file whose read or write throws is put
\* in the error list with its path and message, the batch is not aborted, and
\* every later file is still processed.  (As claimed; BrowserJSMigrator.migrate
\* has no try around its loop body.)
C1_FailureRecordedBatchGoesOn ==
    \A f \in FailedInMigrate :
        /\ \E e \in 1..Len(report.errors) :
               /\ report.errors[e].file = PathOf(files[f.file].name)
               /\ report.errors[e].error \in {"ENOENT", "EACCES"}
        /\ outcome # "exception"
        /\ pc = "ended" => \A i \in f.file..Len(files) : \E a \in 1..Len(attempted) :
                               attempted[a] = i

\* A BrowserJSMigrator batch that a failing file ended before its last file.
C1_Witness ==
    /\ tool = "browserjs"
    /\ outcome = "exception"
    /\ \E f \in FailedInMigrate : f.file < Len(files)
    /\ report.errors = <<>>

\* C2: a runFull that has begun ends with its final summary (or at one of
\* its two returns before the migration: nothing found, declined), whatever
\* files failed in the analysis or in the migration, and the summary's error
\* count covers every file that failed.  (As claimed.)
C2_FullRunEndsWithSummary ==
    (mode = "full" /\ pc = "ended") =>
        /\ outcome \in {"summary", "nothing found", "declined"}
        /\ summary.shown => summary.errors = Cardinality(failed)

\* A runFull that a failing read of the analysis ended: no summary, and
\* nothing of the failure in the report.
C2_Witness ==
    /\ mode = "full"
    /\ pc = "ended"
    /\ outcome = "exception"
    /\ \E f \in failed : f.pass = "analyze"
    /\ ~summary.shown

\* C3: when BrowserJSMigrator.migrate passes a file in which detectPatterns
\* finds nothing, no output file is written, no rewrite is applied, the
\* skipped total grows by exactly one and the migrated total stays.
C3_SkippedFileFrame ==
    [][(/\ tool = "browserjs"
        /\ pc = "migrate"
        /\ idx <= Len(files)
        /\ idx' = idx + 1
        /\ detectPatterns(files[idx].text) = <<>>)
       => /\ outputs' = outputs
          /\ stages' = stages
          /\ report'.skipped = report.skipped + 1
          /\ report'.migrated = report.migrated]_vars

\* A batch that has skipped one file after it migrated, and wrote, another.
C3_Witness ==
    /\ tool = "browserjs"
    /\ report.skipped = 1
    /\ report.migrated = 1
    /\ Len(attempted) = 2
    /\ detectPatterns(files[attempted[2]].text) = <<>>
    /\ DOMAIN outputs = {OutPath(tool, files[attempted[1]].name)}

\* C10: in a runFull without --yes and without --dry-run nothing is written
\* to disk before the prompt is answered, and a run the user declined has
\* written nothing.  (As claimed; analyze writes migration-analysis.json.)
C10_NothingWrittenBeforeAnswer ==
    (mode = "full" /\ ~yes /\ ~dryRun) =>
        /\ ~prompted => (disk = {} /\ outputs = <<>>)
        /\ outcome = "declined" => (disk = {} /\ outputs = <<>>)

\* A declined run that left migration-analysis.json behind.
C10_Witness ==
    /\ mode = "full" /\ ~yes /\ ~dryRun
    /\ outcome = "declined"
    /\ disk = {"migration-analysis.json"}
    /\ outputs = <<>>

----------------------------------------------------------------------------
(* Claims about detection and the rewrite *)

\* Some rule of the migrator's catalog matches the text.
CatalogMatches(t, text) ==
    \E c \in 1..Len(OrderOf(t)) :
        \E r \in 1..Len(TableOf(t)[OrderOf(t)[c]]) :
            Matches(TableOf(t)[OrderOf(t)[c]][r], text)

\* C4: detection tests every rule of the catalog, so migrate skips a file
\* only if no rule of TRANSFORMATIONS matches its text.  (As claimed;
\* detectPatterns has eleven tests of its own and none for ".value".)
C4_SkippedOnlyIfNoRuleMatches ==
    [][(/\ tool = "browserjs"
        /\ pc = "migrate"
        /\ idx <= Len(files)
        /\ idx' = idx + 1
        /\ report'.skipped = report.skipped + 1)
       => ~CatalogMatches(tool, files[idx].text)]_vars

\* A batch whose first file, input.value = 'text';, was skipped.
C4_Witness ==
    /\ tool = "browserjs"
    /\ pc = "migrate"
    /\ idx = 2
    /\ files[1].text = ValueText
    /\ CatalogMatches(tool, ValueText)
    /\ report.skipped = 1
    /\ outputs = <<>>

\* The place of a stage in the order the claim gives: selectors,
\* properties/mutations, actions, navigation, waits, storage/dialogs,
\* assertions, structural wrapping, import normalization; the await and
\* blank-line fixes, of which the claim says nothing, last.
ClaimedRank(stage) ==
    CASE stage = "selectors"                        -> 1
      [] stage \in {"properties", "mutations"}      -> 2
      [] stage = "actions"                          -> 3
      [] stage = "navigation"                       -> 4
      [] stage = "waits"                            -> 5
      [] stage \in {"storage", "dialogs"}           -> 6
      [] stage \in {"cypressAssertions", "assertions"} -> 7
      [] stage \in {"structure", "wrapTest"}        -> 8
      [] stage \in {"imports", "addImport"}         -> 9
      [] OTHER                                      -> 10

\* C5 as claimed: the stages of a rewrite run in the order selectors,
\* properties/mutations, actions, navigation, waits, storage/dialogs,
\* assertions, structural wrapping, import normalization.
C5_ClaimedStageOrder ==
    pc \in {"once", "twice"} =>
        \A i \in 1..Len(stages) : \A j \in i..Len(stages) :
            ClaimedRank(stages[i]) <= ClaimedRank(stages[j])

\* C5, amended: every rewrite applies its stages, each on the result of the
\* one before, in the order the migrator's TRANSFORMATIONS declares its
\* categories, followed by the migrator's steps after the catalog.
C5_DeclaredStageOrder ==
    pc \in {"once", "twice"} =>
        stages = IF tool = "playwright"
                 THEN <<"selectors", "navigation", "actions", "waits",
                        "cypressAssertions", "assertions", "properties", "imports",
                        "structure", "addImport", "addAwait", "fixAwait",
                        "fixBlankLines">>
                 ELSE <<"selectors", "properties", "actions", "mutations",
                        "navigation", "waits", "storage", "dialogs",
                        "wrapTest", "fixAwait", "fixBlankLines">>

\* A BrowserJSMigrator rewrite of a text the catalog changes.
C5_Witness ==
    /\ pc = "once"
    /\ tool = "browserjs"
    /\ CatalogMatches(tool, src)
    /\ Len(stages) = 11
    /\ stages[3] = "actions" /\ stages[4] = "mutations"

\* C6: the rules of one category give the same text in any order.  (As
\* claimed.)
C6_RuleOrderIrrelevant ==
    pc = "category" => out[1] = out[2]

\* PlaywrightMigrator's selectors, with another rule first, give another text.
C6_Witness ==
    /\ pc = "category"
    /\ tool = "playwright"
    /\ stages = <<"selectors">>
    /\ out[1] # out[2]

\* C7: the rewrite of the output of a rewrite is that output.  (As claimed.)
C7_RewriteIdempotent ==
    pc = "twice" => out[2] = out[1]

\* A second rewrite that changed the output of the first.
C7_Witness ==
    /\ pc = "twice"
    /\ tool = "browserjs"
    /\ out[2] # out[1]

\* The steps after the catalog that change a text they match.
PostRules(t) ==
    IF t = "playwright"
    THEN <<PW_Describe, PW_It, PW_Test, PW_AwaitGoto, PW_AwaitClick, PW_AwaitFill,
           FixAwait, FixBlankLines>>
    ELSE <<WrapDescribe, WrapIt, FixAwait, FixBlankLines>>

\* No step after the catalog has anything to change in the text with its
\* import in place, and BrowserJSMigrator has no block to wrap it in.
NothingAfterCatalog(t, text) ==
    /\ \A r \in 1..Len(PostRules(t)) : ~Matches(PostRules(t)[r], AddImport(text))
    /\ t = "browserjs" => HasPlaywrightImport(text) \/ HasTestMarker(text)

\* C8 as claimed: a text no rule of the catalog matches comes out unchanged
\* but for the prepended import.
C8_UnmatchedTextOnlyGetsImport ==
    (pc = "once" /\ ~CatalogMatches(tool, src)) =>
        out[1] \in {src, ImportLine \o src}

\* C8, amended: a text that no rule of the catalog and no step after the
\* catalog matches (and that, in BrowserJSMigrator, holds a test marker or
\* the import) comes out unchanged but for the import, prepended when
\* absent.
C8_UnmatchedTextKeptAfterCatalog ==
    (pc = "once" /\ ~CatalogMatches(tool, src) /\ NothingAfterCatalog(tool, src)) =>
        out[1] = IF HasPlaywrightImport(src) THEN src ELSE ImportLine \o src

\* Both cases of C8: a BrowserJSMigrator text with a test marker that got the
\* import only ...
C8_Witness ==
    /\ pc = "once"
    /\ tool = "browserjs"
    /\ ~CatalogMatches(tool, src)
    /\ NothingAfterCatalog(tool, src)
    /\ ~HasPlaywrightImport(src)
    /\ src # <<>>
    /\ out[1] = ImportLine \o src

\* The imports of @playwright/test in a text, in either quote style.
CountImports(text) ==
    Cardinality({i \in 1..Len(text) : MatchAt(FromModule("@playwright/test"), text, i).ok})

\* C9: the import is prepended if and only if the text has no import of the
\* module in either quote style, and every output has the import.  (As
\* claimed.)
C9_ImportAddedIffAbsent ==
    pc = "once" =>
        CountImports(out[1]) = IF CountImports(src) = 0 THEN 1 ELSE CountImports(src)

\* A text importing from "@playwright/test" that got a second import.
C9_Witness ==
    /\ pc = "once"
    /\ CountImports(src) = 1
    /\ ~HasPlaywrightImport(src)
    /\ CountImports(out[1]) = 2

----------------------------------------------------------------------------
(* Claims about what a run writes *)

\* C11: with --dry-run no operation (analyze, the set-up, migrate, runFull)
\* creates a directory or writes a file: the file system is as it was.
C11_DryRunWritesNothing ==
    dryRun => (disk = {} /\ outputs = <<>>)

\* A dry run that went through the set-up and migrated a file to its summary.
C11_Witness ==
    /\ dryRun
    /\ outcome = "summary"
    /\ summary.migrated > 0
    /\ disk = {}
    /\ outputs = <<>>

\* C12: --analyze alone changes nothing: no file written, no directory
\* created, with or without --dry-run.  (As claimed; analyze writes
\* migration-analysis.json unless --dry-run.)
C12_AnalyzeChangesNothing ==
    mode = "analyze" => (disk = {} /\ outputs = <<>>)

\* An --analyze run, not dry, that ended having written its report.
C12_Witness ==
    /\ mode = "analyze" /\ ~dryRun
    /\ outcome = "analyzed"
    /\ "migration-analysis.json" \in disk

\* The analysis found nothing to migrate: no file at all (PlaywrightMigrator),
\* no file with an idiom (BrowserJSMigrator).
NothingFound ==
    IF tool = "playwright" THEN analysis.files = <<>> ELSE analysis.browserJS = 0

\* C13: when the analysis of a runFull finds nothing, runFull returns there:
\* it never prompts, never runs the set-up, never runs migrate, and nothing is
\* reported as an error.
C13_NothingFoundReturnsEarly ==
    /\ [](outcome = "nothing found" =>
            /\ pc = "ended"
            /\ ~prompted
            /\ attempted = <<>>
            /\ disk \subseteq {"migration-analysis.json"}
            /\ outputs = <<>>
            /\ report.errors = <<>> /\ failed = {})
    /\ [][/\ (pc = "analyze" /\ idx > Len(files) /\ mode = "full" /\ NothingFound)
               => (pc' = "ended" /\ outcome' = "nothing found")
          /\ pc = "ended" => pc' = "ended"]_vars

\* A runFull of BrowserJSMigrator over files without any idiom, returned early.
C13_Witness ==
    /\ tool = "browserjs"
    /\ Len(files) > 0
    /\ analysis.total = Len(files)
    /\ outcome = "nothing found"

\* The number of files migrate has written so far.
Written == IF tool = "playwright" THEN migrated ELSE report.migrated

\* C14: one output file per input file: distinct input files of a batch are
\* written to distinct output paths, none overwriting another's output.  (As
\* claimed; PlaywrightMigrator sends a.test.js and a.spec.js to one path.)
C14_OneOutputPerInput ==
    ~dryRun => Cardinality(DOMAIN outputs) = Written

\* PlaywrightMigrator migrated a.test.js and a.spec.js and left one file.
C14_Witness ==
    /\ tool = "playwright" /\ ~dryRun
    /\ Len(files) = 2
    /\ PathOf(files[1].name) = "a.test.js" /\ PathOf(files[2].name) = "a.spec.js"
    /\ migrated = 2
    /\ DOMAIN outputs = {"tests/a.spec.ts"}

\* The output paths that end in .spec.ts.
SpecTsPaths ==
    {"tests/" \o Names[n].dir \o Names[n].base \o s \o ".spec.ts" :
        n \in 1..Len(Names), s \in {"", ".test", ".spec", ".cy"}}

\* C15: every written output path ends in .spec.ts.  (As claimed;
\* PlaywrightMigrator keeps the name of a file matched by **/tests/**/*.js.)
C15_OutputsEndInSpecTs ==
    DOMAIN outputs \subseteq SpecTsPaths

\* PlaywrightMigrator wrote tests/b.js out under its own name.
C15_Witness ==
    /\ tool = "playwright"
    /\ "tests/tests/b.js" \in DOMAIN outputs

\* The files the migrate loop has begun to process.
Begun == {attempted[a] : a \in 1..Len(attempted)}

\* C16, as claimed: the rewrite of a file is a function of its text alone,
\* so two files of a batch with the same text are written with the same
\* output.
C16_SameTextSameOutput ==
    \A i, j \in Begun :
        (/\ files[i].text = files[j].text
         /\ OutPath(tool, files[i].name) \in DOMAIN outputs
         /\ OutPath(tool, files[j].name) \in DOMAIN outputs)
        => outputs[OutPath(tool, files[i].name)] = outputs[OutPath(tool, files[j].name)]

\* C16, amended: what is written for a file is the rewrite of its own text
\* under its own name, whichever files, and however many, came before it.
C16_OutputOfTextAndName ==
    \A p \in DOMAIN outputs :
        \E i \in Begun :
            /\ OutPath(tool, files[i].name) = p
            /\ outputs[p] = Rewrite(tool, files[i].text, WrapName(files[i].name)).text

\* Two files of one text, both migrated by BrowserJSMigrator, the second
\* with the rewrite its text and name give.
C16_Witness ==
    /\ tool = "browserjs"
    /\ Len(files) = 2
    /\ files[1].text = files[2].text
    /\ Cardinality(DOMAIN outputs) = 2
    /\ outputs[OutPath(tool, files[2].name)]
           = BJS_Rewrite(files[2].text, WrapName(files[2].name)).text

----------------------------------------------------------------------------
(* Claims about the step synthesis *)

\* The steps of every scenario built so far.
BuiltSteps ==
    UNION {UNION {{f.scenarios[c].steps[k] : k \in 1..Len(f.scenarios[c].steps)} :
                     c \in 1..Len(f.scenarios)} :
              f \in {features[i] : i \in 1..Len(features)}}

\* C17: the rendered step definitions hold one binding per step phrase: no
\* two bindings have the same step expression, however many files or
\* scenarios produced the phrase.
C17_OneBindingPerPhrase ==
    \A i, j \in 1..Len(rendered) : i # j => rendered[i].expr # rendered[j].expr

\* Two files each gave When I click on ".login-btn", rendered once; the Given
\* of the baseline was synthesized as well.
C17_Witness ==
    /\ pc = "rendered"
    /\ Len(features) = 2
    /\ \A i \in 1..2 : \E k \in 1..Len(features[i].scenarios[1].steps) :
           features[i].scenarios[1].steps[k] = ClickOn(".login-btn")
    /\ OnApplicationPage \in BuiltSteps
    /\ Cardinality({i \in 1..Len(rendered) :
                       rendered[i].expr = ClickOn(".login-btn").phrase}) = 1

\* C18: the bindings always emitted cover every phrasing the synthesis can
\* produce, the unquoted placeholders included: every step of a generated
\* feature matches one of them.  (As claimed; common.steps.ts has no binding
\* for a placeholder.)
C18_BaselineCoversEveryStep ==
    \A st \in BuiltSteps :
        \E b \in 1..Len(Baseline) : MatchesStep(Baseline[b].expr, st.phrase)

\* A scenario with Then I should see the expected result, which no binding of
\* common.steps.ts matches.
C18_Witness ==
    /\ SeeExpectedResult \in BuiltSteps
    /\ \A b \in 1..Len(Baseline) : ~MatchesStep(Baseline[b].expr, SeeExpectedResult.phrase)
    /\ \E b \in 1..Len(Baseline) : MatchesStep(Baseline[b].expr, ClickOn(".login-btn").phrase)

\* The steps of a phase in a scenario.
InPhase(steps, phase) == {k \in 1..Len(steps) : steps[k].phase = phase}

\* C19: every scenario built for a migrated file has exactly one Given step
\* and at least one Then step, also when the file has idioms but no literal
\* argument to extract.
C19_ScenarioComplete ==
    \A i \in 1..Len(features) : \A c \in 1..Len(features[i].scenarios) :
        /\ Cardinality(InPhase(features[i].scenarios[c].steps, "Given")) = 1
        /\ InPhase(features[i].scenarios[c].steps, "Then") # {}

\* A file with a lookup and nothing to extract: its scenario is the three
\* placeholders.
C19_Witness ==
    /\ Len(sources) > 0
    /\ sources[1].detection = Detection({"lookup"}, "", <<>>, <<FALSE, FALSE, FALSE>>)
    /\ Len(features) > 0
    /\ features[1].scenarios[1].steps
           = <<OnApplicationPage, PerformTestActions, SeeExpectedResult>>

----------------------------------------------------------------------------
(* Claims about the await normalization *)

\* C20: after the rewrite's await normalization no output holds two awaits
\* with only white space between them, however many awaits in a row the
\* input and the rules produced, three or more included.  (As claimed; the
\* one pass of /await\s+await/g leaves one pair of every run of three or four.)
C20_NoAdjacentAwaits ==
    \A k \in 1..Len(out) : ~Matches(FixAwait, out[k])

\* await await before a storage call that the rules prefix with await: three
\* in a row, of which the output keeps two.
C20_Witness ==
    /\ tool = "browserjs"
    /\ pc = "once"
    /\ src = <<Tok("await"), SP, Tok("await"), SP,
               Tok("localStorage.setItem("), Sq("k"), Tok(","), SP, Tok("el"),
               Tok(".innerText"), Tok(")"), Tok(";"), NL>>
    /\ Matches(FixAwait, out[1])
    /\ Cardinality({i \in 1..Len(out[1]) : out[1][i] = Tok("await")}) = 2

----------------------------------------------------------------------------
(* Claims about the analysis record and the counts of a batch *)

\* The idioms detectPatterns can report.
IdiomIds == {BJS_Detectors[d].id : d \in 1..Len(BJS_Detectors)}

\* The per-file records of the analysis that list an idiom.
Listing(id) ==
    {r \in 1..Len(analysis.files) :
        \E k \in 1..Len(analysis.files[r].patterns) : analysis.files[r].patterns[k] = id}

\* C21: in the record BrowserJSMigrator.analyze builds, after each file
\* scanned: summary.total is the number of files scanned so far, those
\* without idiom included; summary.browserJS is the number of per-file
\* records and counts exactly the files with an idiom; and every idiom's
\* aggregate count is the number of per-file records listing it.
C21_AnalysisCounts ==
    (tool = "browserjs" /\ pc = "analyze") =>
        /\ analysis.total = idx - 1
        /\ analysis.browserJS = Len(analysis.files)
        /\ analysis.browserJS =
               Cardinality({i \in 1..(idx - 1) : detectPatterns(files[i].text) # <<>>})
        /\ analysis.browserJS <= analysis.total
        /\ \A id \in IdiomIds :
               Cardinality(Listing(id))
                   = IF id \in DOMAIN analysis.counts THEN analysis.counts[id] ELSE 0

\* Two files scanned, one without idiom and one with two.
C21_Witness ==
    /\ tool = "browserjs" /\ pc = "analyze"
    /\ idx = 3
    /\ analysis.total = 2
    /\ analysis.browserJS = 1
    /\ analysis.counts = [id \in {"getElementById", "DOM-actions"} |-> 1]

\* The idioms the analysis recorded for the file, none when it has no record.
Recorded ==
    IF analysis.files = <<>> THEN {}
    ELSE {analysis.files[1].patterns[k] : k \in 1..Len(analysis.files[1].patterns)}

\* C22: detection is inclusive: an idiom is in the result of detectPatterns
\* if and only if its own expression occurs in the text, whatever other
\* idioms match the same text or the same span.
C22_DetectionInclusive ==
    (tool = "browserjs" /\ pc = "analyze" /\ idx = 2 /\ Len(files) = 1) =>
        \A d \in 1..Len(BJS_Detectors) :
            BJS_Detectors[d].id \in Recorded
                <=> TestAny(BJS_Detectors[d].pats, files[1].text)

\* document.querySelectorAll('li') recorded as querySelectorAll and as
\* querySelector, next to a jQuery call recorded as jQuery and as DOM-actions.
C22_Witness ==
    /\ tool = "browserjs" /\ pc = "analyze" /\ idx = 2 /\ Len(files) = 1
    /\ files[1].text # <<>>
    /\ files[1].text[1] = Tok("document.querySelectorAll(")
    /\ Recorded = {"querySelector", "querySelectorAll", "jQuery", "DOM-actions"}

\* migrate has returned to its caller.
MigrateOver == pc = "summary" \/ outcome \in {"summary", "migrated"}

\* C23: when a batch migration ends every enumerated file is accounted for
\* exactly once: after PlaywrightMigrator.migrate, report.migrated plus the
\* length of report.errors is the number of files, the errors naming each
\* failed file once and no migrated one; after BrowserJSMigrator.migrate
\* completes, report.migrated plus report.skipped is the number of files.
C23_EveryFileCountedOnce ==
    MigrateOver =>
        IF tool = "playwright"
        THEN /\ report.migrated + Len(report.errors) = Len(files)
             /\ report.migrated = Len(files) - Cardinality(FailedInMigrate)
             /\ \A e \in 1..Len(report.errors) :
                    \E f \in FailedInMigrate :
                        report.errors[e].file = PathOf(files[f.file].name)
             /\ \A d, e \in 1..Len(report.errors) :
                    d # e => report.errors[d].file # report.errors[e].file
        ELSE /\ report.migrated + report.skipped = Len(files)
             /\ report.skipped =
                    Cardinality({i \in 1..Len(files) : detectPatterns(files[i].text) = <<>>})

\* A PlaywrightMigrator batch of two files ended with one migrated and one
\* in the error list.
C23_Witness ==
    /\ tool = "playwright"
    /\ outcome = "summary"
    /\ Len(files) = 2
    /\ report.migrated = 1
    /\ Len(report.errors) = 1

=============================================================================
